---- MODULE Spec2Model ----
(***************************************************************************)
(* pysnyk: the REST page walk of SnykClient (client.py) and the default    *)
(* collection operations of the managers (managers.py).                    *)
(*                                                                         *)
(* Spec        one call of SnykClient.get_rest_pages against a backend of  *)
(*             NumPages pages, through SnykClient.get and its retries.     *)
(* ManagerSpec calls of Manager.get / first / filter and DictManager.get   *)
(*             on managers whose all() returns a given list or mapping.    *)
(* CallSpec    Manager.factory and the calls of the managers it builds.    *)
(* NormalizerSpec  ProjectManager._rest_to_v1_response_format.             *)
(* ProjectSpec the listings and lookups of ProjectManager, of              *)
(*             OrganizationManager.all and of the managers whose get(id)   *)
(*             is one REST GET.                                            *)
(* ClientSpec  one call of SnykClient.get, post, put or delete.            *)
(* DependencySpec  one call of DependencyManager.all.                      *)
(***************************************************************************)
EXTENDS Integers, Sequences, FiniteSets, TLC

\* ---------------------------------------------------------------- bounds
NumPages == 3
MaxTries == 2
\* A walk over NumPages pages that ends fetches at most NumPages + 1 pages
\* (see C3); the model stops exploring a walk one fetch later.
MaxFetch == NumPages + 2
\* The longest list a manager's all() returns, and the most predicates of
\* one filter call.
MaxLen == 3
MaxKwargs == 2

\* ------------------------------------------------------------- constants
\* requests.codes.server_error, the threshold in SnykClient.request
server_error == 500

Pages    == 1..NumPages
Statuses == {200, 404, 500}

\* A link of a page's "links" object: absent ({}) or the URL of a page ({q}).
Links == {{}} \cup {{q} : q \in Pages}

\* The items a page carries when its "data" list is not empty.  Item 1 is
\* on every page, so a walk that de-duplicated items would show.
PageItems(p) == <<p, 1>>

\* The responses the backend may give at the URL of page p: a non-ok status
\* (404, 500), or 200 with a JSON body whose "data" is missing, empty or
\* PageItems(p), with any next link and any self link.  The endpoint answers
\* every attempt alike.
Responses(p) ==
  { [status |-> 200, hasData |-> d[1], data |-> d[2], next |-> n, self |-> s] :
      d \in {<<FALSE, <<>>>>, <<TRUE, <<>>>>, <<TRUE, PageItems(p)>>},
      n \in Links, s \in Links }
  \cup
  { [status |-> st, hasData |-> FALSE, data |-> <<>>, next |-> {}, self |-> {}] :
      st \in Statuses \ {200} }

\* The backend has not answered at this URL yet.
Unserved ==
  [status |-> 0, hasData |-> FALSE, data |-> <<>>, next |-> {}, self |-> {}]

\* No page held (before the first response).
NoPage ==
  [status |-> 200, hasData |-> FALSE, data |-> <<>>, next |-> {}, self |-> {}]

VARIABLES
  tries,        \* SnykClient.tries
  backend,      \* page -> the body served at its URL (Unserved until asked)
  pc,           \* position of the call: idle, loop, done, raised
  page_data,    \* get_rest_pages: the body of the latest response
  return_data,  \* get_rest_pages: the accumulator
  fetched,      \* history: the pages whose response arrived, in order
  calls,        \* history: every HTTP request sent, in order
  result,       \* the value returned to the caller (when pc = "done")
  error,        \* the exception raised to the caller (when pc = "raised")
  store,        \* what all() of the List-manager returns (backend contents)
  mapping,      \* what all() of the Dict-manager returns
  m_call,       \* the latest manager call: operation and arguments
  m_out,        \* its outcome: the value returned or the exception raised
  manager,      \* the manager Manager.factory built: klass, client, instance
  query,        \* ProjectManager._query: organizations left, next_url, tags
  snyk          \* the SnykClient object: api_url, rest_api_url, version

wvars == <<tries, backend, pc, page_data, return_data, fetched, calls,
           result, error>>

\* what a manager call leaves alone: the backend's contents and the manager
svars == <<snyk, store, mapping, manager, query>>

mvars == <<svars, m_call, m_out>>

vars == <<wvars, mvars>>

\* ------------------------------------------------------ SnykClient.request
\* requests.Response.ok / bool(resp)
Ok(status) == status < 400

\* request() raising on a 5xx status only
RequestRaisesOnServerError(status) == status >= server_error

\* client.py:102  `if not resp or resp.status_code >= server_error: raise`
RequestRaises(status) == ~Ok(status) \/ status >= server_error

\* ---------------------------------------------------------- SnykClient.get
\* k attempts at page p that made request() raise with status st
Failures(p, k, st) ==
  [i \in 1..k |-> [page |-> p, status |-> st, attempt |-> i]]

\* one attempt more than tries
AttemptsOneMore(t) == t + 1

\* retry_call(..., tries=self.tries): the number of attempts made before
\* the exception of request() is let through
Attempts(t) == t

\* get(url of p) when the endpoint answers with status st: the requests it
\* sends and whether it returns the response or raises SnykHTTPError.
\*  - request() raises on every attempt: Attempts(t) requests, then the
\*    exception reaches the caller of get (client.py:249-257);
\*  - request() returns the response: one request, and get raises when the
\*    response is not ok (client.py:258-260).
GetOutcome(p, t, st) ==
  IF RequestRaises(st)
    THEN [sent |-> Failures(p, Attempts(t), st), raises |-> TRUE]
    ELSE [sent |-> <<[page |-> p, status |-> st, attempt |-> 1]>>,
          raises |-> ~Ok(st)]

\* The response the backend gives at page p: chosen when first asked, the
\* same ever after.
Served(p) == IF backend[p] = Unserved THEN Responses(p) ELSE {backend[p]}

\* ------------------------------------------------ SnykClient.get_rest_pages
MissingDataNever(page) == FALSE

\* client.py:310  page_data["data"] raises KeyError when the key is absent
MissingData(page) == ~page.hasData

\* client.py:312  while page_data.get("links", {}).get("next")
HasNext(page) == page.next # {}

NextIsSelfNever(page) == FALSE

\* client.py:320-323  "self" in links and links["next"] == links["self"]
NextIsSelf(page) == page.self # {} /\ page.next = page.self

StopsOnlyOnMissingData(page) == ~page.hasData

\* client.py:336-342  a later page without "data" or with an empty list
StopsWalk(page) == ~page.hasData \/ Len(page.data) = 0

RECURSIVE Dedup(_)
Dedup(s) ==
  IF s = <<>> THEN <<>>
  ELSE LET r == Dedup(SubSeq(s, 1, Len(s) - 1))
       IN IF \E i \in 1..Len(r) : r[i] = s[Len(s)] THEN r
          ELSE Append(r, s[Len(s)])

ExtendDedup(acc, data) == Dedup(acc \o data)

\* client.py:345  return_data.extend(page_data["data"])
Extend(acc, data) == acc \o data

PartialOnError(acc) == [pc |-> "done", result |-> acc, error |-> "none"]

\* get_rest_pages has no handler around self.get: SnykHTTPError reaches the
\* caller and the accumulator is dropped.
TransportError(acc) ==
  [pc |-> "raised", result |-> <<>>, error |-> "SnykHTTPError"]

\* ------------------------------------------------------- managers.py
\* The objects a List-manager holds: their attributes are id and name.
Ids   == {"a", "b"}
Names == {"x", "y"}
Items == [id : Ids, name : Names]

\* The ids and keys a caller may ask for ("c" is never present), and the
\* keyword predicates a caller may pass to filter ("nosuch" is no attribute
\* of the objects).
LookupIds  == Ids \cup {"c"}
KwargKeys  == {"id", "name", "nosuch"}
KwargVals  == {"a", "x"}

BoundedSeq(S, n) == UNION {[1..k -> S] : k \in 0..n}

\* **kwargs: an ordered mapping, each key at most once
Kwargs ==
  { kw \in BoundedSeq(KwargKeys \X KwargVals, MaxKwargs) :
      \A i, j \in 1..Len(kw) : kw[i][1] = kw[j][1] => i = j }

Returns(v) == [error |-> "none", value |-> <<v>>]
Raises(e)  == [error |-> e, value |-> <<>>]

NoCall    == [op |-> "none", id |-> "", kwargs |-> <<>>]
NoOutcome == [error |-> "none", value |-> <<>>]

\* No listing is being walked: no organization left, no next_url, no tags.
\* No client object is looked at (the call goes through a stub of the client).
NoClient == [api_url |-> "", rest_api_url |-> <<>>, version |-> "None"]

NoQuery == [todo |-> <<>>, url |-> 0, tags |-> <<>>]

\* No manager has been built yet.
NoManager ==
  [impl |-> "none", klass |-> [form |-> "str", name |-> ""], client |-> "",
   instance |-> "None"]

\* next(x for x in all if x.id == id): the first match, else StopIteration
RECURSIVE NextMatch(_, _)
NextMatch(all, id) ==
  IF all = <<>> THEN Raises("StopIteration")
  ELSE IF Head(all).id = id THEN Returns(Head(all))
  ELSE NextMatch(Tail(all), id)

ManagerGetOrNone(all, id) ==
  IF NextMatch(all, id).error = "StopIteration"
    THEN [error |-> "none", value |-> <<>>]
    ELSE NextMatch(all, id)

\* managers.py:28-32  Manager.get
ManagerGet(all, id) ==
  IF NextMatch(all, id).error = "StopIteration"
    THEN Raises("SnykNotFoundError")
    ELSE NextMatch(all, id)

ManagerFirstLast(all) ==
  IF Len(all) = 0 THEN Raises("SnykNotFoundError") ELSE Returns(all[Len(all)])

\* managers.py:34-38  Manager.first
ManagerFirst(all) ==
  IF Len(all) = 0 THEN Raises("SnykNotFoundError") ELSE Returns(all[1])

\* getattr(x, key) == value for every x of data; AttributeError when an
\* object has no such attribute
FilterOne(data, key, value) ==
  IF \E i \in 1..Len(data) : key \notin DOMAIN data[i]
    THEN Raises("AttributeError")
    ELSE Returns(SelectSeq(data, LAMBDA x : x[key] = value))

FilterByFirstKwarg(data, kwargs) ==
  IF kwargs = <<>> THEN Returns(data)
  ELSE FilterOne(data, Head(kwargs)[1], Head(kwargs)[2])

\* managers.py:40-44  Manager._filter_by_kwargs: one pass over data per
\* keyword, in the order of the keywords
RECURSIVE FilterByKwargs(_, _)
FilterByKwargs(data, kwargs) ==
  IF kwargs = <<>> THEN Returns(data)
  ELSE LET one == FilterOne(data, Head(kwargs)[1], Head(kwargs)[2])
       IN IF one.error # "none" THEN one
          ELSE FilterByKwargs(one.value[1], Tail(kwargs))

DictManagerGetOrNone(all, id) ==
  IF id \in DOMAIN all THEN Returns(all[id])
  ELSE [error |-> "none", value |-> <<>>]

\* managers.py:865-869  DictManager.get
DictManagerGet(all, id) ==
  IF id \in DOMAIN all THEN Returns(all[id]) ELSE Raises("SnykNotFoundError")

TypeOK ==
  /\ tries \in 1..MaxTries
  /\ pc \in {"idle", "loop", "done", "raised"}
  /\ error \in {"none", "KeyError", "SnykHTTPError"}
  /\ \A p \in Pages : backend[p] = Unserved \/ backend[p] \in Responses(p)

Init ==
  /\ tries \in 1..MaxTries
  /\ backend = [p \in Pages |-> Unserved]
  /\ pc = "idle"
  /\ page_data = NoPage
  /\ return_data = <<>>
  /\ fetched = <<>>
  /\ calls = <<>>
  /\ result = <<>>
  /\ error = "none"
  /\ store = <<>>
  /\ mapping = <<>>
  /\ m_call = NoCall
  /\ m_out = NoOutcome
  /\ manager = NoManager
  /\ query = NoQuery
  /\ snyk = NoClient

\* The start page of the walk: the page at the URL of `path`.
StartPage == CHOOSE p \in Pages : \A q \in Pages : p <= q

\* client.py:308  the first get fails after its retries
FirstFails ==
  /\ pc = "idle"
  /\ \E resp \in Served(StartPage) :
       /\ GetOutcome(StartPage, tries, resp.status).raises
       /\ calls' = calls \o GetOutcome(StartPage, tries, resp.status).sent
       /\ backend' = [backend EXCEPT ![StartPage] = resp]
  /\ pc' = TransportError(return_data).pc
  /\ result' = TransportError(return_data).result
  /\ error' = TransportError(return_data).error
  /\ UNCHANGED <<tries, page_data, return_data, fetched>>
  /\ UNCHANGED mvars

\* client.py:308-310  the first response has no "data": page_data["data"]
\* raises KeyError
FirstMalformed ==
  /\ pc = "idle"
  /\ \E resp \in Served(StartPage) :
       /\ ~GetOutcome(StartPage, tries, resp.status).raises
       /\ MissingData(resp)
       /\ calls' = calls \o GetOutcome(StartPage, tries, resp.status).sent
       /\ backend' = [backend EXCEPT ![StartPage] = resp]
       /\ page_data' = resp
       /\ fetched' = Append(fetched, StartPage)
  /\ pc' = "raised"
  /\ error' = "KeyError"
  /\ UNCHANGED <<tries, return_data, result>>
  /\ UNCHANGED mvars

\* client.py:308-310  return_data = page_data["data"]
FirstPage ==
  /\ pc = "idle"
  /\ \E resp \in Served(StartPage) :
       /\ ~GetOutcome(StartPage, tries, resp.status).raises
       /\ ~MissingData(resp)
       /\ calls' = calls \o GetOutcome(StartPage, tries, resp.status).sent
       /\ backend' = [backend EXCEPT ![StartPage] = resp]
       /\ page_data' = resp
       /\ return_data' = resp.data
       /\ fetched' = Append(fetched, StartPage)
  /\ pc' = "loop"
  /\ UNCHANGED <<tries, result, error>>
  /\ UNCHANGED mvars

\* client.py:312, 349  the while condition is false: return return_data
LoopEnds ==
  /\ pc = "loop"
  /\ ~HasNext(page_data)
  /\ pc' = "done"
  /\ result' = return_data
  /\ UNCHANGED <<tries, backend, page_data, return_data, fetched, calls,
                 error>>
  /\ UNCHANGED mvars

\* client.py:320-324, 349  next equals self: break, return return_data
LoopSelf ==
  /\ pc = "loop"
  /\ HasNext(page_data)
  /\ NextIsSelf(page_data)
  /\ pc' = "done"
  /\ result' = return_data
  /\ UNCHANGED <<tries, backend, page_data, return_data, fetched, calls,
                 error>>
  /\ UNCHANGED mvars

\* client.py:326-332  self.get(next_url, rest=True) fails after its retries
NextFails ==
  /\ pc = "loop"
  /\ HasNext(page_data)
  /\ ~NextIsSelf(page_data)
  /\ Len(fetched) < MaxFetch
  /\ \E next_url \in page_data.next :
     \E resp \in Served(next_url) :
       /\ GetOutcome(next_url, tries, resp.status).raises
       /\ calls' = calls \o GetOutcome(next_url, tries, resp.status).sent
       /\ backend' = [backend EXCEPT ![next_url] = resp]
  /\ pc' = TransportError(return_data).pc
  /\ result' = TransportError(return_data).result
  /\ error' = TransportError(return_data).error
  /\ UNCHANGED <<tries, page_data, return_data, fetched>>
  /\ UNCHANGED mvars

\* client.py:326-342, 349  the next page has no "data" or an empty list:
\* break, return return_data
NextStops ==
  /\ pc = "loop"
  /\ HasNext(page_data)
  /\ ~NextIsSelf(page_data)
  /\ Len(fetched) < MaxFetch
  /\ \E next_url \in page_data.next :
     \E resp \in Served(next_url) :
       /\ ~GetOutcome(next_url, tries, resp.status).raises
       /\ StopsWalk(resp)
       /\ calls' = calls \o GetOutcome(next_url, tries, resp.status).sent
       /\ backend' = [backend EXCEPT ![next_url] = resp]
       /\ page_data' = resp
       /\ fetched' = Append(fetched, next_url)
  /\ pc' = "done"
  /\ result' = return_data
  /\ UNCHANGED <<tries, return_data, error>>
  /\ UNCHANGED mvars

\* client.py:326-348  the next page has items: extend and loop again
NextPage ==
  /\ pc = "loop"
  /\ HasNext(page_data)
  /\ ~NextIsSelf(page_data)
  /\ Len(fetched) < MaxFetch
  /\ \E next_url \in page_data.next :
     \E resp \in Served(next_url) :
       /\ ~GetOutcome(next_url, tries, resp.status).raises
       /\ ~StopsWalk(resp)
       /\ calls' = calls \o GetOutcome(next_url, tries, resp.status).sent
       /\ backend' = [backend EXCEPT ![next_url] = resp]
       /\ page_data' = resp
       /\ return_data' = Extend(return_data, resp.data)
       /\ fetched' = Append(fetched, next_url)
  /\ UNCHANGED <<tries, pc, result, error>>
  /\ UNCHANGED mvars

Next ==
  \/ FirstFails
  \/ FirstMalformed
  \/ FirstPage
  \/ LoopEnds
  \/ LoopSelf
  \/ NextFails
  \/ NextStops
  \/ NextPage

Spec == Init /\ [][Next]_vars

\* ------------------------------------------------------------------------
\* Properties of the page walk (specification Spec)
\* ------------------------------------------------------------------------
Last(s) == s[Len(s)]

PageSet(s) == {s[i] : i \in 1..Len(s)}

Distinct(s) == \A i, j \in 1..Len(s) : s[i] = s[j] => i = j

\* The "data" items of the pages of s, page after page ("data" missing
\* counts as no items).
RECURSIVE ConcatData(_)
ConcatData(s) ==
  IF s = <<>> THEN <<>> ELSE backend[Head(s)].data \o ConcatData(Tail(s))

\* The page's next link is present and equal to its self link.
SelfReferential(p) ==
  backend[p].self # {} /\ backend[p].next = backend[p].self

\* The page carries at least one item.
NonEmpty(p) == backend[p].hasData /\ backend[p].data # <<>>

\* The pages fetched so far are a chain: they are distinct and no next link
\* leads back to a page of the chain or to the page itself.
ForwardChain ==
  /\ Distinct(fetched)
  /\ \A i \in 1..Len(fetched) :
       backend[fetched[i]].next \cap {fetched[j] : j \in 1..i} = {}

\* One GET per page, the first to the start page and each later one to the
\* next link of the response before it; every item of every page returned,
\* in page order; the walk ended on the page without a next link.
WalkedWholeChain ==
  /\ backend[Last(fetched)].next = {}
  /\ Len(calls) = Len(fetched)
  /\ \A i \in 1..Len(calls) : calls[i].page = fetched[i]
  /\ calls[1].page = StartPage
  /\ \A i \in 2..Len(calls) : calls[i].page \in backend[calls[i-1].page].next
  /\ result = ConcatData(fetched)

\* C1 as stated: for any finite chain of pages linked by next cursors whose
\* last page has no next link, a finished walk has issued one GET per page
\* of the chain, each to the next link of the response before it, and
\* returns all pages' items in page order.  Refuted: a later page with an
\* empty or missing "data", or a page whose self link equals its next link,
\* ends the walk before the rest of the chain is fetched.
C1_WalkReturnsWholeChain ==
  (pc = "done" /\ ForwardChain) => WalkedWholeChain

\* C1 (amended): the same, for chains in which every page after the first
\* carries at least one item and no page's next link equals its self link.
C1_WalkReturnsChainOfNonEmptyPages ==
  ( /\ pc = "done"
    /\ ForwardChain
    /\ \A i \in 1..Len(fetched) : ~SelfReferential(fetched[i])
    /\ \A i \in 2..Len(fetched) : NonEmpty(fetched[i]) )
  => WalkedWholeChain

C1_Witness ==
  /\ pc = "done"
  /\ ForwardChain
  /\ \A i \in 1..Len(fetched) :
       ~SelfReferential(fetched[i]) /\ NonEmpty(fetched[i])
  /\ Len(fetched) = 3
  /\ Len(result) = 6

\* C2: when a page's next link equals its self link the walk ends there:
\* nothing is fetched after that page, the number of requests equals the
\* number of distinct pages fetched, and the result holds the items of the
\* fetched pages with those of the self-referential page exactly once.
C2_SelfLinkEndsWalk ==
  \A i \in 1..Len(fetched) :
    SelfReferential(fetched[i]) =>
      /\ i = Len(fetched)
      /\ Last(calls).page = fetched[i]
      /\ Len(calls) = Cardinality(PageSet(fetched))
      /\ pc \in {"loop", "done", "raised"}
      /\ pc = "raised" => (i = 1 /\ error = "KeyError")
      /\ pc = "done" =>
           /\ result = ConcatData(fetched)
           /\ Cardinality({j \in 1..Len(fetched) : fetched[j] = fetched[i]}) = 1

C2_Witness ==
  /\ pc = "done"
  /\ Len(fetched) = 2
  /\ SelfReferential(fetched[2])
  /\ NonEmpty(fetched[2])
  /\ Len(calls) = 2
  /\ result = ConcatData(fetched)

\* C3 as stated: over a backend of NumPages pages that answers every
\* request the walk ends.  A walk that ends fetches no page twice after the
\* first response (the same response would make it take the same step
\* again), so it fetches at most NumPages + 1 pages; the claim is stated as
\* that bound.  Refuted: two pages whose next links point at each other are
\* fetched again and again.
C3_WalkTerminates ==
  Len(fetched) <= NumPages + 1

\* C4 as stated: a first page without "data" makes the walk fail with the
\* malformed-page error (KeyError) after that one request, and a first page
\* with an empty "data" list is no error and gives an empty result.
\* Refuted: the walk goes on to the next link of a first page with an empty
\* list and returns the items of the later pages.
C4_FirstPageDataOrEmptyResult ==
  Len(fetched) >= 1 =>
    /\ ~backend[fetched[1]].hasData =>
         /\ pc = "raised" /\ error = "KeyError"
         /\ Len(calls) = 1 /\ Len(fetched) = 1
    /\ (backend[fetched[1]].hasData /\ backend[fetched[1]].data = <<>>) =>
         /\ error # "KeyError"
         /\ pc = "done" => result = <<>>

\* C4 (amended): a first page without "data" makes the walk fail with the
\* malformed-page error (KeyError) after that one request; a first page
\* with an empty "data" list is no error and contributes no items: the
\* walk goes on from its links as from any first page, and the result is
\* the items of the later pages (empty when nothing more is fetched).
C4_FirstPageDataRequired ==
  Len(fetched) >= 1 =>
    /\ ~backend[fetched[1]].hasData =>
         /\ pc = "raised" /\ error = "KeyError"
         /\ Len(calls) = 1 /\ Len(fetched) = 1
    /\ (backend[fetched[1]].hasData /\ backend[fetched[1]].data = <<>>) =>
         /\ error # "KeyError"
         /\ pc # "idle"
         /\ pc = "done" =>
              /\ result = ConcatData(Tail(fetched))
              /\ Len(fetched) = 1 => result = <<>>

C4_Witness ==
  /\ pc = "raised"
  /\ error = "KeyError"
  /\ fetched = <<StartPage>>
  /\ ~backend[StartPage].hasData
  /\ backend[StartPage].next # {}

\* C5: a page after the first without "data" or with an empty list ends
\* the walk with success: it is the last page requested, even when it has
\* a next link, and the result is the items of the pages before it.
C5_LaterPageWithoutItemsEndsWalk ==
  \A i \in 2..Len(fetched) :
    ~NonEmpty(fetched[i]) =>
      /\ i = Len(fetched)
      /\ Last(calls).page = fetched[i]
      /\ Ok(Last(calls).status)
      /\ pc = "done"
      /\ error = "none"
      /\ result = ConcatData(SubSeq(fetched, 1, i - 1))

C5_Witness ==
  /\ pc = "done"
  /\ Len(fetched) = 2
  /\ backend[fetched[2]].hasData
  /\ backend[fetched[2]].data = <<>>
  /\ backend[fetched[2]].next \notin {{}, backend[fetched[2]].self}
  /\ result = PageItems(StartPage)

\* The requests that were answered with a non-ok status.
FailedCalls == {i \in 1..Len(calls) : ~Ok(calls[i].status)}

\* C6: when a request of the walk fails for good, SnykHTTPError reaches the
\* caller: no list is returned, the failed attempts are the last requests
\* sent (no later page is asked for), and they are the `tries` attempts of
\* the transport at one URL, not more.
C6_TransportFailurePropagates ==
  FailedCalls # {} =>
    /\ pc = "raised"
    /\ error = "SnykHTTPError"
    /\ result = <<>>
    /\ FailedCalls = (Len(calls) - tries + 1)..Len(calls)
    /\ \A i \in FailedCalls :
         /\ calls[i].page = Last(calls).page
         /\ calls[i].attempt = i - (Len(calls) - tries)
    /\ Len(calls) = Len(fetched) + tries

C6_Witness ==
  /\ pc = "raised"
  /\ error = "SnykHTTPError"
  /\ Len(fetched) = 2
  /\ return_data # <<>>
  /\ tries = 2
  /\ Len(calls) = 4

\* ------------------------------------------------------------------------
\* Manager calls (specification ManagerSpec)
\* ------------------------------------------------------------------------
\* A List-manager whose all() returns `store` and a Dict-manager whose all()
\* returns `mapping`; no call is in progress.
ManagerInit ==
  /\ tries = 1
  /\ backend = [p \in Pages |-> Unserved]
  /\ pc = "idle"
  /\ page_data = NoPage
  /\ return_data = <<>>
  /\ fetched = <<>>
  /\ calls = <<>>
  /\ result = <<>>
  /\ error = "none"
  /\ store \in BoundedSeq(Items, MaxLen)
  /\ mapping \in UNION {[K -> Names] : K \in SUBSET Ids}
  /\ m_call = NoCall
  /\ m_out = NoOutcome
  /\ manager = NoManager
  /\ query = NoQuery
  /\ snyk = NoClient

\* managers.py:28-32  manager.get(id)
ManagerGetCall ==
  /\ \E id \in LookupIds :
       /\ m_call' = [op |-> "get", id |-> id, kwargs |-> <<>>]
       /\ m_out' = ManagerGet(store, id)
  /\ UNCHANGED <<wvars, svars>>

\* managers.py:34-38  manager.first()
ManagerFirstCall ==
  /\ m_call' = [op |-> "first", id |-> "", kwargs |-> <<>>]
  /\ m_out' = ManagerFirst(store)
  /\ UNCHANGED <<wvars, svars>>

\* managers.py:46-47  manager.filter(**kwargs)
ManagerFilterCall ==
  /\ \E kwargs \in Kwargs :
       /\ m_call' = [op |-> "filter", id |-> "", kwargs |-> kwargs]
       /\ m_out' = FilterByKwargs(store, kwargs)
  /\ UNCHANGED <<wvars, svars>>

\* managers.py:865-869  dict_manager.get(id)
DictManagerGetCall ==
  /\ \E id \in LookupIds :
       /\ m_call' = [op |-> "dict_get", id |-> id, kwargs |-> <<>>]
       /\ m_out' = DictManagerGet(mapping, id)
  /\ UNCHANGED <<wvars, svars>>

ManagerNext ==
  \/ ManagerGetCall
  \/ ManagerFirstCall
  \/ ManagerFilterCall
  \/ DictManagerGetCall

ManagerSpec == ManagerInit /\ [][ManagerNext]_vars

\* The positions of all()'s result that hold an object with this id.
Matches(id) == {i \in 1..Len(store) : store[i].id = id}

\* C7: get(id) of a List-manager returns the first object of all() whose id
\* is id when there is one, and raises SnykNotFoundError when there is none.
C7_GetReturnsFirstMatch ==
  m_call.op = "get" =>
    IF Matches(m_call.id) # {}
      THEN /\ m_out.error = "none"
           /\ Len(m_out.value) = 1
           /\ m_out.value[1].id = m_call.id
           /\ \E i \in Matches(m_call.id) :
                /\ \A j \in Matches(m_call.id) : i <= j
                /\ m_out.value[1] = store[i]
      ELSE m_out = [error |-> "SnykNotFoundError", value |-> <<>>]

C7_Witness ==
  /\ m_call.op = "get"
  /\ Cardinality(Matches(m_call.id)) = 2
  /\ 1 \notin Matches(m_call.id)
  /\ store[2].name # store[3].name
  /\ m_out.value = <<store[2]>>

\* C8: first() of a List-manager returns the head of all() when all() is
\* not empty and raises SnykNotFoundError when it is empty.
C8_FirstReturnsHead ==
  m_call.op = "first" =>
    IF store # <<>>
      THEN m_out = [error |-> "none", value |-> <<Head(store)>>]
      ELSE m_out = [error |-> "SnykNotFoundError", value |-> <<>>]

C8_Witness ==
  /\ m_call.op = "first"
  /\ Len(store) = 3
  /\ store[1] # store[3]
  /\ m_out.value = <<store[1]>>

\* Every keyword of the call names an attribute of the objects.
NamesAttributes(kwargs) ==
  \A k \in 1..Len(kwargs) : kwargs[k][1] \in {"id", "name"}

\* The object satisfies every predicate of the call.
Satisfies(x, kwargs) ==
  \A k \in 1..Len(kwargs) : x[kwargs[k][1]] = kwargs[k][2]

\* C9: filter(**predicates) of a List-manager returns the objects of all()
\* whose named attributes all equal the given values, in the order of
\* all(); without predicates it returns all(), and when no object
\* satisfies them it returns the empty list.
C9_FilterKeepsExactMatches ==
  (m_call.op = "filter" /\ NamesAttributes(m_call.kwargs)) =>
    /\ m_out.error = "none"
    /\ m_out.value =
         <<SelectSeq(store, LAMBDA x : Satisfies(x, m_call.kwargs))>>
    /\ m_call.kwargs = <<>> => m_out.value = <<store>>
    /\ (\A i \in 1..Len(store) : ~Satisfies(store[i], m_call.kwargs))
         => m_out.value = << <<>> >>

C9_Witness ==
  /\ m_call.op = "filter"
  /\ Len(m_call.kwargs) = 2
  /\ NamesAttributes(m_call.kwargs)
  /\ Len(store) = 3
  /\ Satisfies(store[1], m_call.kwargs)
  /\ ~Satisfies(store[2], m_call.kwargs)
  /\ Satisfies(store[2], <<m_call.kwargs[1]>>)
  /\ Satisfies(store[3], m_call.kwargs)
  /\ m_out.value = << <<store[1], store[3]>> >>

\* C10: get(id) of a Dict-manager returns the value stored under key id in
\* the mapping all() returns, and raises SnykNotFoundError when the mapping
\* has no such key.
C10_DictGetIndexesMapping ==
  m_call.op = "dict_get" =>
    IF m_call.id \in DOMAIN mapping
      THEN m_out = [error |-> "none", value |-> <<mapping[m_call.id]>>]
      ELSE m_out = [error |-> "SnykNotFoundError", value |-> <<>>]

C10_Witness ==
  /\ m_call.op = "dict_get"
  /\ DOMAIN mapping = Ids
  /\ mapping["a"] # mapping["b"]
  /\ m_call.id = "b"
  /\ m_out.value = <<mapping["b"]>>

\* ------------------------------------------------------------------------
\* Manager.factory and the calls of the manager it builds (specification
\* CallSpec)
\* ------------------------------------------------------------------------
\* managers.py:57-84  the kinds the factory registers and the implementation
\* of each
Registry ==
  ("Project" :> "ProjectManager") @@
  ("Organization" :> "OrganizationManager") @@
  ("Member" :> "MemberManager") @@
  ("License" :> "LicenseManager") @@
  ("Dependency" :> "DependencyManager") @@
  ("Entitlement" :> "EntitlementManager") @@
  ("Setting" :> "SettingManager") @@
  ("Ignore" :> "IgnoreManager") @@
  ("JiraIssue" :> "JiraIssueManager") @@
  ("DependencyGraph" :> "DependencyGraphManager") @@
  ("IssueSet" :> "IssueSetManager") @@
  ("IssueSetAggregated" :> "IssueSetAggregatedManager") @@
  ("Integration" :> "IntegrationManager") @@
  ("IntegrationSetting" :> "IntegrationSettingManager") @@
  ("Tag" :> "TagManager") @@
  ("IssuePaths" :> "IssuePathsManager") @@
  ("Target" :> "TargetsManager") @@
  ("RestIssue" :> "IssuesManager") @@
  ("Group" :> "GroupManager") @@
  ("RestUser" :> "UserManager") @@
  ("Collection" :> "CollectionManager") @@
  ("ServiceAccount" :> "ServiceAccountManager") @@
  ("Environment" :> "EnvironmentManager") @@
  ("Invite" :> "InviteManager") @@
  ("App" :> "AppManager") @@
  ("AuditLog" :> "AuditLogManager")

\* Names that are not keys of the registry: a model class without a manager
\* and a misspelt name.
Unregistered == {"Vulnerability", "project"}

\* What a caller passes as klass: a model class or the name of one.
Klasses ==
  [form : {"class", "str"}, name : DOMAIN Registry \cup Unregistered]

Clients   == {"client-1", "client-2"}
Instances == {"None", "org-1", "org-2"}

FactoryKeyOfRepr(klass) ==
  IF klass.form = "str" THEN klass.name ELSE "<class>"

\* managers.py:56-59  key = klass if isinstance(klass, str) else
\* klass.__name__
FactoryKey(klass) ==
  IF klass.form = "str" THEN klass.name ELSE klass.name

\* managers.py:49-91  Manager.factory: manager(klass, client, instance) of
\* the registered implementation, SnykError on the KeyError of the lookup
Factory(klass, client, instance) ==
  IF FactoryKey(klass) \in DOMAIN Registry
    THEN Returns([impl |-> Registry[FactoryKey(klass)], klass |-> klass,
                  client |-> client, instance |-> instance])
    ELSE Raises("SnykError")

\* The variables of the page walk that a manager call leaves alone.
cvars == <<backend, pc, page_data, return_data, fetched, result, error>>

\* client.py:107-153, 155-199, 201-262, 264-298  post, put, get and delete
\* alike: retry_call(self.request, ...), then `if not resp.ok: raise`.  The
\* requests sent when the endpoint answers with status st, and whether the
\* call raises SnykHTTPError.
Exchange(request, t, st) ==
  IF RequestRaises(st)
    THEN [sent |-> [i \in 1..Attempts(t) |-> request @@ ("status" :> st)],
          raises |-> TRUE]
    ELSE [sent |-> <<request @@ ("status" :> st)>>, raises |-> ~Ok(st)]

\* An HTTP request: the body is <<>> when the request carries none.
Request(method, rest, path, body) ==
  [method |-> method, rest |-> rest, path |-> path, body |-> body]

\* The outcome of a manager call and the requests it sent.
Done(out, sent) == [out |-> out, sent |-> sent]

\* The subclasses of DictManager (managers.py:1133, 1140, 1177, 1187, 1229)
DictManagers ==
  {"EntitlementManager", "SettingManager", "IgnoreManager",
   "JiraIssueManager", "IntegrationSettingManager"}

\* managers.py:1133-1137  EntitlementManager.all (the other Dict-managers
\* alike): the path is built from self.instance, then one v1 GET whose JSON
\* body is the result
DictManagerAll(mgr, all, st, t) ==
  IF mgr.instance = "None" THEN Done(Raises("AttributeError"), <<>>)
  ELSE LET x == Exchange(Request("get", FALSE,
                                 "org/" \o mgr.instance \o "/entitlements",
                                 <<>>), t, st)
       IN Done(IF x.raises THEN Raises("SnykHTTPError") ELSE Returns(all),
               x.sent)

DictManagerFilterInherited(mgr, all, kwargs, st, t) ==
  LET a == DictManagerAll(mgr, all, st, t)
  IN IF a.out.error # "none" \/ kwargs = <<>> \/ DOMAIN all = {} THEN a
     ELSE Done(Raises("AttributeError"), a.sent)

\* managers.py:871-872  DictManager.filter
DictManagerFilter(mgr, all, kwargs, st, t) ==
  Done(Raises("SnykNotImplementedError"), <<>>)

\* klass.from_dict(data): the parsed object; a klass given by name is a str,
\* which has no from_dict
FromDict(klass, data) ==
  IF klass.form = "str" THEN Raises("AttributeError")
  ELSE Returns([klass |-> klass.name, data |-> data])

\* The subclasses of SingletonManager (managers.py:1239, 1253, 1286, 1322)
SingletonManagers ==
  {"DependencyGraphManager", "IssueSetManager", "IssueSetAggregatedManager",
   "IssuePathsManager"}

\* managers.py:889-890  SingletonManager.get
SingletonManagerGet(mgr, id, st, t) ==
  Done(Raises("SnykNotImplementedError"), <<>>)

\* managers.py:886-887  SingletonManager.first
SingletonManagerFirst(mgr, st, t) ==
  Done(Raises("SnykNotImplementedError"), <<>>)

\* managers.py:892-893  SingletonManager.filter
SingletonManagerFilter(mgr, kwargs, st, t) ==
  Done(Raises("SnykNotImplementedError"), <<>>)

\* An optional value: <<>> when absent, <<v>> when present.
Opt(S) == {<<>>} \cup {<<v>> : v \in S}

\* The keywords of an issue filter call: each given or not; a list of
\* severities may be empty, a flag may be False.
IssueKwargs ==
  [severities : Opt({<<>>, <<"high">>}), ignored : Opt(BOOLEAN),
   includeDescription : Opt({TRUE}), nosuch : Opt({TRUE})]

NoIssueKwargs ==
  [severities |-> <<>>, ignored |-> <<>>, includeDescription |-> <<>>,
   nosuch |-> <<>>]

\* managers.py:1304  "priority": {"score": {"min": 0, "max": 1000}}
priority_score_min == 0
priority_score_max == 1000

\* managers.py:1272-1280  filters of IssueSetManager.filter: a default is
\* replaced when kwargs.get(filter_name) is truthy (a non-empty list, True)
IssueSetFilters(kwargs) ==
  [severities |-> IF kwargs.severities # <<>> /\ kwargs.severities[1] # <<>>
                    THEN kwargs.severities[1]
                    ELSE <<"critical", "high", "medium", "low">>,
   types      |-> <<"vuln", "license">>,
   ignored    |-> IF kwargs.ignored # <<>> /\ kwargs.ignored[1]
                    THEN kwargs.ignored[1] ELSE FALSE,
   patched    |-> FALSE]

\* managers.py:1267-1283  IssueSetManager.filter
IssueSetManagerFilter(mgr, kwargs, st, t) ==
  IF mgr.instance = "None" THEN Done(Raises("AttributeError"), <<>>)
  ELSE LET x == Exchange(Request("post", FALSE,
                                 "org/" \o mgr.instance \o "/project/p/issues",
                                 <<[filters |-> IssueSetFilters(kwargs)]>>),
                         t, st)
       IN Done(IF x.raises THEN Raises("SnykHTTPError")
               ELSE FromDict(mgr.klass, "composite"), x.sent)

\* managers.py:1264-1265  IssueSetManager.all
IssueSetManagerAll(mgr, st, t) ==
  IssueSetManagerFilter(mgr, NoIssueKwargs, st, t)

\* managers.py:1295-1311  filters of IssueSetAggregatedManager.filter: a
\* default is replaced, and ignored (patched) added, when the keyword is
\* among kwargs
IssueSetAggregatedFilters(kwargs) ==
  (IF kwargs.severities # <<>>
     THEN "severities" :> kwargs.severities[1]
     ELSE "severities" :> <<"critical", "high", "medium", "low">>) @@
  (IF kwargs.ignored # <<>> THEN "ignored" :> kwargs.ignored[1] ELSE <<>>) @@
  [exploitMaturity |-> <<"mature", "proof-of-concept", "no-known-exploit",
                         "no-data">>,
   types           |-> <<"vuln", "license">>,
   priority        |-> [score |-> [min |-> priority_score_min,
                                   max |-> priority_score_max]]]

\* managers.py:1290-1319  IssueSetAggregatedManager.filter
IssueSetAggregatedManagerFilter(mgr, kwargs, st, t) ==
  IF mgr.instance = "None" THEN Done(Raises("AttributeError"), <<>>)
  ELSE LET x == Exchange(
                  Request("post", FALSE,
                          "org/" \o mgr.instance \o "/project/p/aggregated-issues",
                          <<([filters |-> IssueSetAggregatedFilters(kwargs)] @@
                             (IF kwargs.includeDescription # <<>>
                                THEN "includeDescription" :>
                                       kwargs.includeDescription[1]
                                ELSE <<>>))>>),
                  t, st)
       IN Done(IF x.raises THEN Raises("SnykHTTPError")
               ELSE FromDict(mgr.klass, "composite"), x.sent)

\* managers.py:1287-1288  IssueSetAggregatedManager.all
IssueSetAggregatedManagerAll(mgr, st, t) ==
  IssueSetAggregatedManagerFilter(mgr, NoIssueKwargs, st, t)

\* The managers with a REST create, the "type" of the payload of each and the
\* collection of its path (managers.py:505-526, 563-582, 607-622, 661-678,
\* 754-771); all but CollectionManager have a delete as well
RestType ==
  ("ServiceAccountManager" :> "service_account") @@ ("AppManager" :> "app") @@
  ("InviteManager" :> "invite") @@ ("EnvironmentManager" :> "environment") @@
  ("CollectionManager" :> "collection")

\* managers.py:523, 579, 619, 675, 768  the collection each of them posts to
RestPath ==
  ("ServiceAccountManager" :> "service_accounts") @@
  ("AppManager" :> "apps/creations") @@ ("InviteManager" :> "invites") @@
  ("EnvironmentManager" :> "cloud/environments") @@
  ("CollectionManager" :> "collections")

\* managers.py:505-526  ServiceAccountManager.create, and the create of the
\* other managers of RestType alike: SnykError without an instance, else one
\* REST POST of {"data": {"type", "attributes"}}, the "data" of the response
\* parsed
RestCreate(mgr, attributes, st, t) ==
  IF mgr.instance = "None" THEN Done(Raises("SnykError"), <<>>)
  ELSE LET x == Exchange(
                  Request("post", TRUE,
                          "orgs/" \o mgr.instance \o "/" \o RestPath[mgr.impl],
                          <<[data |-> [type |-> RestType[mgr.impl],
                                       attributes |-> attributes]]>>), t, st)
       IN Done(IF x.raises THEN Raises("SnykHTTPError")
               ELSE FromDict(mgr.klass, "resource"), x.sent)

\* managers.py:528-536  ServiceAccountManager.delete, and the delete of the
\* other managers alike: SnykError without an instance, else one REST DELETE
\* and bool(response)
RestDelete(mgr, id, st, t) ==
  IF mgr.instance = "None" THEN Done(Raises("SnykError"), <<>>)
  ELSE LET x == Exchange(
                  Request("delete", TRUE,
                          "orgs/" \o mgr.instance \o "/" \o RestPath[mgr.impl]
                            \o "/" \o id, <<>>), t, st)
       IN Done(IF x.raises THEN Raises("SnykHTTPError") ELSE Returns(TRUE),
               x.sent)

\* The methods of SnykClient (client.py:78-349); there is no patch
ClientMethods ==
  {"request", "post", "put", "get", "delete", "get_rest_pages"}

\* managers.py:690-708  EnvironmentManager.update: SnykError without an
\* instance; else the payload is built and self.client.patch is looked up,
\* which raises AttributeError on a client without that method
EnvironmentManagerUpdate(mgr, id, attributes, st, t) ==
  IF mgr.instance = "None" THEN Done(Raises("SnykError"), <<>>)
  ELSE IF "patch" \notin ClientMethods
    THEN Done(Raises("AttributeError"), <<>>)
    ELSE LET x == Exchange(
                    Request("patch", TRUE,
                            "orgs/" \o mgr.instance \o "/cloud/environments/" \o id,
                            <<[data |-> [type |-> "environment", id |-> id,
                                         attributes |-> attributes]]>>), t, st)
         IN Done(IF x.raises THEN Raises("SnykHTTPError")
                 ELSE FromDict(mgr.klass, "resource"), x.sent)

\* managers.py:912-926  TagManager.add and TagManager.delete (suffix
\* "/remove"): the path is built from self.instance.organization with no
\* test of self.instance, then one v1 POST of the tag and bool(response)
TagManagerPost(mgr, suffix, tag, st, t) ==
  IF mgr.instance = "None" THEN Done(Raises("AttributeError"), <<>>)
  ELSE LET x == Exchange(
                  Request("post", FALSE,
                          "org/o/project/" \o mgr.instance \o "/tags" \o suffix,
                          <<tag>>), t, st)
       IN Done(IF x.raises THEN Raises("SnykHTTPError") ELSE Returns(TRUE),
               x.sent)

\* A client with its retry count and the backend's mapping; no manager has
\* been built.
CallInit ==
  /\ tries \in 1..MaxTries
  /\ backend = [p \in Pages |-> Unserved]
  /\ pc = "idle"
  /\ page_data = NoPage
  /\ return_data = <<>>
  /\ fetched = <<>>
  /\ calls = <<>>
  /\ result = <<>>
  /\ error = "none"
  /\ store = <<>>
  /\ mapping \in UNION {[K -> {"x"}] : K \in SUBSET Ids}
  /\ m_call = NoCall
  /\ m_out = NoOutcome
  /\ manager = NoManager
  /\ query = NoQuery
  /\ snyk = NoClient

\* managers.py:49-91  Manager.factory(klass, client, instance); a behaviour
\* follows the one manager a caller builds
FactoryCall ==
  /\ manager = NoManager
  /\ \E klass \in Klasses, client \in Clients, instance \in Instances :
       /\ m_call' = [op |-> "factory", klass |-> klass, client |-> client,
                     instance |-> instance]
       /\ m_out' = Factory(klass, client, instance)
       /\ manager' = IF Factory(klass, client, instance).error = "none"
                       THEN Factory(klass, client, instance).value[1]
                       ELSE manager
  /\ calls' = <<>>
  /\ UNCHANGED <<tries, cvars, snyk, store, mapping, query>>

\* managers.py:1133-1137  dict_manager.all()
DictManagerAllCall ==
  /\ manager.impl \in DictManagers
  /\ \E st \in Statuses :
       /\ m_call' = [op |-> "dict_all"]
       /\ m_out' = DictManagerAll(manager, mapping, st, tries).out
       /\ calls' = DictManagerAll(manager, mapping, st, tries).sent
  /\ UNCHANGED <<tries, cvars, svars>>

\* managers.py:871-872  dict_manager.filter(**kwargs)
DictManagerFilterCall ==
  /\ manager.impl \in DictManagers
  /\ \E kwargs \in Kwargs, st \in Statuses :
       /\ m_call' = [op |-> "dict_filter", kwargs |-> kwargs]
       /\ m_out' = DictManagerFilter(manager, mapping, kwargs, st, tries).out
       /\ calls' = DictManagerFilter(manager, mapping, kwargs, st, tries).sent
  /\ UNCHANGED <<tries, cvars, svars>>

\* managers.py:889-890  singleton_manager.get(id)
SingletonManagerGetCall ==
  /\ manager.impl \in SingletonManagers
  /\ \E id \in LookupIds, st \in Statuses :
       /\ m_call' = [op |-> "singleton_get", id |-> id]
       /\ m_out' = SingletonManagerGet(manager, id, st, tries).out
       /\ calls' = SingletonManagerGet(manager, id, st, tries).sent
  /\ UNCHANGED <<tries, cvars, svars>>

\* managers.py:886-887  singleton_manager.first()
SingletonManagerFirstCall ==
  /\ manager.impl \in SingletonManagers
  /\ \E st \in Statuses :
       /\ m_call' = [op |-> "singleton_first"]
       /\ m_out' = SingletonManagerFirst(manager, st, tries).out
       /\ calls' = SingletonManagerFirst(manager, st, tries).sent
  /\ UNCHANGED <<tries, cvars, svars>>

\* The filter a Singleton-manager resolves to: its own (managers.py:1267,
\* 1290) or the inherited one (managers.py:892)
SingletonFilter(mgr, kwargs, st, t) ==
  CASE mgr.impl = "IssueSetManager" ->
         IssueSetManagerFilter(mgr, kwargs, st, t)
    [] mgr.impl = "IssueSetAggregatedManager" ->
         IssueSetAggregatedManagerFilter(mgr, kwargs, st, t)
    [] OTHER -> SingletonManagerFilter(mgr, kwargs, st, t)

\* managers.py:892-893, 1267-1283, 1290-1319  singleton_manager.filter(**kwargs)
SingletonManagerFilterCall ==
  /\ manager.impl \in SingletonManagers
  /\ \E kwargs \in IssueKwargs, st \in Statuses :
       /\ m_call' = [op |-> "singleton_filter", kwargs |-> kwargs]
       /\ m_out' = SingletonFilter(manager, kwargs, st, tries).out
       /\ calls' = SingletonFilter(manager, kwargs, st, tries).sent
  /\ UNCHANGED <<tries, cvars, svars>>

\* managers.py:1264-1265, 1287-1288  all() of the managers that override
\* filter
SingletonManagerAllCall ==
  /\ manager.impl \in {"IssueSetManager", "IssueSetAggregatedManager"}
  /\ \E st \in Statuses :
       /\ m_call' = [op |-> "singleton_all"]
       /\ m_out' = IF manager.impl = "IssueSetManager"
                     THEN IssueSetManagerAll(manager, st, tries).out
                     ELSE IssueSetAggregatedManagerAll(manager, st, tries).out
       /\ calls' = IF manager.impl = "IssueSetManager"
                     THEN IssueSetManagerAll(manager, st, tries).sent
                     ELSE IssueSetAggregatedManagerAll(manager, st, tries).sent
  /\ UNCHANGED <<tries, cvars, svars>>

\* managers.py:505-526 and alike  manager.create(...)
CreateCall ==
  /\ manager.impl \in DOMAIN RestType
  /\ \E st \in Statuses :
       LET r == RestCreate(manager, [name |-> "n"], st, tries)
       IN /\ m_call' = [op |-> "create", mutator |-> TRUE]
          /\ m_out' = r.out
          /\ calls' = r.sent
  /\ UNCHANGED <<tries, cvars, svars>>

\* managers.py:528-536 and alike  manager.delete(id)
DeleteCall ==
  /\ manager.impl \in DOMAIN RestType \ {"CollectionManager"}
  /\ \E st \in Statuses :
       LET r == RestDelete(manager, "a", st, tries)
       IN /\ m_call' = [op |-> "delete", mutator |-> TRUE]
          /\ m_out' = r.out
          /\ calls' = r.sent
  /\ UNCHANGED <<tries, cvars, svars>>

\* managers.py:690-708  environment_manager.update(id, name, options)
UpdateCall ==
  /\ manager.impl = "EnvironmentManager"
  /\ \E st \in Statuses :
       LET r == EnvironmentManagerUpdate(manager, "a", [name |-> "n"], st, tries)
       IN /\ m_call' = [op |-> "update", mutator |-> TRUE]
          /\ m_out' = r.out
          /\ calls' = r.sent
  /\ UNCHANGED <<tries, cvars, svars>>

\* managers.py:912-918  tag_manager.add(key, value)
TagAddCall ==
  /\ manager.impl = "TagManager"
  /\ \E st \in Statuses :
       LET r == TagManagerPost(manager, "", [key |-> "env", value |-> "prod"],
                               st, tries)
       IN /\ m_call' = [op |-> "add", mutator |-> TRUE]
          /\ m_out' = r.out
          /\ calls' = r.sent
  /\ UNCHANGED <<tries, cvars, svars>>

\* managers.py:920-926  tag_manager.delete(key, value)
TagDeleteCall ==
  /\ manager.impl = "TagManager"
  /\ \E st \in Statuses :
       LET r == TagManagerPost(manager, "/remove",
                               [key |-> "env", value |-> "prod"], st, tries)
       IN /\ m_call' = [op |-> "delete", mutator |-> TRUE]
          /\ m_out' = r.out
          /\ calls' = r.sent
  /\ UNCHANGED <<tries, cvars, svars>>

CallNext ==
  \/ FactoryCall
  \/ DictManagerAllCall
  \/ DictManagerFilterCall
  \/ SingletonManagerGetCall
  \/ SingletonManagerFirstCall
  \/ SingletonManagerFilterCall
  \/ SingletonManagerAllCall
  \/ CreateCall
  \/ DeleteCall
  \/ UpdateCall
  \/ TagAddCall
  \/ TagDeleteCall

CallSpec == CallInit /\ [][CallNext]_vars

\* C11: filter of every Dict-manager raises SnykNotImplementedError whatever
\* the keywords and whatever the backend holds, and sends no request.
C11_DictFilterNotImplemented ==
  m_call.op = "dict_filter" =>
    /\ m_out = [error |-> "SnykNotImplementedError", value |-> <<>>]
    /\ calls = <<>>

C11_Witness ==
  /\ m_call.op = "dict_filter"
  /\ manager.impl = "SettingManager"
  /\ manager.instance = "org-1"
  /\ m_call.kwargs # <<>>
  /\ DOMAIN mapping = Ids

\* The filters an issue filter request carries by default.
DefaultSeverities == <<"critical", "high", "medium", "low">>

\* The filter parameters a request body carries are the given ones: every
\* recognised keyword given appears in the body with the value given, and
\* every one not given has its default (severities) or is left out or False
\* (ignored).
CarriesFilterParameters(body, kwargs) ==
  /\ "filters" \in DOMAIN body
  /\ "severities" \in DOMAIN body.filters
  /\ body.filters.severities =
       IF kwargs.severities # <<>> THEN kwargs.severities[1]
       ELSE DefaultSeverities
  /\ IF kwargs.ignored # <<>>
       THEN /\ "ignored" \in DOMAIN body.filters
            /\ body.filters.ignored = kwargs.ignored[1]
       ELSE "ignored" \in DOMAIN body.filters => body.filters.ignored = FALSE

\* The call reached an endpoint that answered ok, on a manager built from a
\* model class with a Scope.
AnsweredOk ==
  /\ manager.instance # "None"
  /\ manager.klass.form = "class"
  /\ calls # <<>>
  /\ Ok(calls[Len(calls)].status)

\* C12: get and first of every Singleton-manager raise
\* SnykNotImplementedError and so does filter, unless the manager overrides
\* it (IssueSetManager, IssueSetAggregatedManager): then filter sends one
\* request carrying the filter parameters and returns the single composite
\* object, and all() is filter() with no predicates.
C12_SingletonLookups ==
  /\ m_call.op \in {"singleton_get", "singleton_first"} =>
       /\ m_out = [error |-> "SnykNotImplementedError", value |-> <<>>]
       /\ calls = <<>>
  /\ ( /\ m_call.op = "singleton_filter"
       /\ manager.impl \notin {"IssueSetManager", "IssueSetAggregatedManager"} )
     => /\ m_out = [error |-> "SnykNotImplementedError", value |-> <<>>]
        /\ calls = <<>>
  /\ ( /\ m_call.op = "singleton_filter"
       /\ manager.impl \in {"IssueSetManager", "IssueSetAggregatedManager"}
       /\ AnsweredOk )
     => /\ Len(calls) = 1
        /\ calls[1].method = "post"
        /\ Len(calls[1].body) = 1
        /\ CarriesFilterParameters(calls[1].body[1], m_call.kwargs)
        /\ m_out.error = "none"
        /\ m_out.value = <<[klass |-> manager.klass.name, data |-> "composite"]>>
  /\ (m_call.op = "singleton_all" /\ AnsweredOk)
     => /\ Len(calls) = 1
        /\ Len(calls[1].body) = 1
        /\ CarriesFilterParameters(calls[1].body[1], NoIssueKwargs)
        /\ m_out.error = "none"
        /\ m_out.value = <<[klass |-> manager.klass.name, data |-> "composite"]>>

\* The latest call is a mutator: create, update, delete or add.
MutatorCalled == "mutator" \in DOMAIN m_call

\* C15: every mutator (create, update, delete, add) of a manager that needs
\* a Scope, called on a manager built without one, raises SnykError and
\* sends no request.
C15_MutatorWithoutScope ==
  (MutatorCalled /\ manager.instance = "None") =>
    /\ m_out = [error |-> "SnykError", value |-> <<>>]
    /\ calls = <<>>

\* C16: every mutator (create, update, delete) of a manager with a Scope
\* sends exactly one request; the payload of a create or an update has the
\* shape {data: {type, attributes}} and the call returns the resource parsed
\* from the response, a delete returns a boolean.  (The endpoint answers ok
\* and the manager was built from a model class.)
C16_MutatorSendsOneRequest ==
  ( /\ MutatorCalled
    /\ m_call.op \in {"create", "update", "delete"}
    /\ manager.instance # "None"
    /\ manager.klass.form = "class" )
  => /\ calls # <<>>
     /\ Ok(calls[Len(calls)].status) =>
          /\ Len(calls) = 1
          /\ m_out.error = "none"
          /\ IF m_call.op = "delete" THEN m_out.value[1] \in BOOLEAN
             ELSE /\ Len(calls[1].body) = 1
                  /\ {"type", "attributes"} \subseteq DOMAIN calls[1].body[1].data
                  /\ m_out.value =
                       <<[klass |-> manager.klass.name, data |-> "resource"]>>

\* C17: Manager.factory(kind, client, scope) returns, for every registered
\* kind given as a class or as its name, a manager of the implementation
\* registered for that kind, holding exactly that kind, client and scope; it
\* raises SnykError for every kind that is not registered; it sends no
\* request.
C17_FactoryBuildsRegistered ==
  m_call.op = "factory" =>
    /\ calls = <<>>
    /\ IF m_call.klass.name \in DOMAIN Registry
         THEN /\ m_out.error = "none"
              /\ m_out.value = <<manager>>
              /\ manager.impl = Registry[m_call.klass.name]
              /\ manager.klass = m_call.klass
              /\ manager.client = m_call.client
              /\ manager.instance = m_call.instance
         ELSE /\ m_out = [error |-> "SnykError", value |-> <<>>]
              /\ manager = NoManager

C17_Witness ==
  /\ m_call.op = "factory"
  /\ m_call.klass = [form |-> "class", name |-> "Collection"]
  /\ m_call.client = "client-2"
  /\ m_call.instance = "org-2"
  /\ manager.impl = "CollectionManager"
  /\ manager.instance = "org-2"

\* ------------------------------------------------------------------------
\* The schema normalizer (specification NormalizerSpec)
\* ------------------------------------------------------------------------
\* JSON null where a mapping is expected, the empty mapping {}, and Python's
\* None for a scalar the payload does not give.
Null  == [null |-> TRUE]
Empty == <<>>
None  == "None"

\* dict.get(k, default)
Get(d, k, default) == IF k \in DOMAIN d THEN d[k] ELSE default

\* A key of a payload: left out (<<>>) or given with a value (<<v>>).
Field(k, opt) == IF opt = <<>> THEN Empty ELSE k :> opt[1]

\* d.get(k1, {}).get(k2, {})...: the mapping the chain arrives at; Null when
\* a link of the chain is null, on which the next .get raises AttributeError
RECURSIVE Walk(_, _)
Walk(d, keys) ==
  IF keys = <<>> \/ d = Null THEN d
  ELSE Walk(Get(d, Head(keys), Empty), Tail(keys))

Severities == {"low", "medium", "high", "critical"}

\* REST project payloads: every key left out, empty, null or given
Counts     == UNION {[K -> {3}] : K \in SUBSET Severities}
MetaShapes ==
  {Empty, Null} \cup {[latest_issue_counts |-> c] : c \in Counts \cup {Null}}
TargetData ==
  {Empty, Null, [attributes |-> Empty], [attributes |-> [url |-> "u"]],
   [meta |-> Empty], [meta |-> [integration_data |-> Empty]],
   [attributes |-> [url |-> "u"],
    meta |-> [integration_data |-> [cluster |-> "c"]]]}
RelShapes ==
  {Empty, Null, [target |-> Empty], [importer |-> [data |-> [id |-> "u1"]]]}
  \cup {[target |-> [data |-> d]] : d \in TargetData}
AttrShapes ==
  {Empty, Null, [name |-> "n"],
   [status |-> "inactive", settings |-> Empty],
   [name |-> "n", status |-> "active", target_reference |-> "main",
    tags |-> <<[key |-> "env", value |-> "prod"]>>,
    settings |-> [recurring_tests |-> [frequency |-> "daily"]]]}
ProjectPayloads ==
  { Field("id", i) @@ Field("attributes", a) @@ Field("meta", m) @@
    Field("relationships", r) :
      i \in Opt({"p1"}), a \in Opt(AttrShapes), m \in Opt(MetaShapes),
      r \in Opt(RelShapes) }

\* The chains of .get(k, {}) the normalizer follows before its last .get
Chains ==
  { <<"attributes">>, <<"attributes", "settings", "recurring_tests">>,
    <<"meta", "latest_issue_counts">>,
    <<"relationships", "target", "data", "attributes">>,
    <<"relationships", "target", "data", "meta", "integration_data">>,
    <<"relationships", "importer", "data">>,
    <<"relationships", "owner", "data">> }

rest_to_v1_counts_required(project) ==
  IF "meta" \notin DOMAIN project THEN Raises("KeyError")
  ELSE IF \E c \in Chains : Walk(project, c) = Null
    THEN Raises("AttributeError")
    ELSE Returns([issueCountsBySeverity |->
                    Walk(project, <<"meta", "latest_issue_counts">>)])

\* managers.py:930-987  ProjectManager._rest_to_v1_response_format
rest_to_v1_response_format(project) ==
  IF \E c \in Chains : Walk(project, c) = Null THEN Raises("AttributeError")
  ELSE
    LET attributes   == Walk(project, <<"attributes">>)
        issue_counts == Walk(project, <<"meta", "latest_issue_counts">>)
        target(k)    == Walk(project, <<"relationships", "target", "data", k>>)
    IN Returns(
      [name           |-> Get(attributes, "name", None),
       id             |-> Get(project, "id", None),
       created        |-> Get(attributes, "created", None),
       origin         |-> Get(attributes, "origin", None),
       type           |-> Get(attributes, "type", None),
       readOnly       |-> Get(attributes, "read_only", None),
       testFrequency  |->
         Get(Walk(project, <<"attributes", "settings", "recurring_tests">>),
             "frequency", None),
       lastTestedDate |-> Get(issue_counts, "updated_at", None),
       isMonitored    |-> Get(attributes, "status", None) = "active",
       issueCountsBySeverity |->
         [sev \in Severities |-> Get(issue_counts, sev, 0)],
       targetReference |-> Get(attributes, "target_reference", None),
       branch          |-> Get(attributes, "target_reference", None),
       remoteRepoUrl   |-> Get(target("attributes"), "url", None),
       imageCluster    |->
         Get(Walk(project, <<"relationships", "target", "data", "meta",
                             "integration_data">>), "cluster", None),
       tags            |-> Get(attributes, "tags", <<>>),
       importingUserId |->
         Get(Walk(project, <<"relationships", "importer", "data">>), "id", None),
       owningUserId    |->
         Get(Walk(project, <<"relationships", "owner", "data">>), "id", None)])

\* One payload of the backend, not yet normalised.
NormalizerInit ==
  /\ tries = 1
  /\ backend = [p \in Pages |-> Unserved]
  /\ pc = "idle"
  /\ page_data = NoPage
  /\ return_data = <<>>
  /\ fetched = <<>>
  /\ calls = <<>>
  /\ result = <<>>
  /\ error = "none"
  /\ store \in {<<project>> : project \in ProjectPayloads}
  /\ mapping = <<>>
  /\ m_call = NoCall
  /\ m_out = NoOutcome
  /\ manager = NoManager
  /\ query = NoQuery
  /\ snyk = NoClient

\* managers.py:930-987  self._rest_to_v1_response_format(project)
NormalizerCall ==
  /\ m_call' = [op |-> "_rest_to_v1_response_format", project |-> store[1]]
  /\ m_out' = rest_to_v1_response_format(store[1])
  /\ UNCHANGED <<wvars, svars>>

NormalizerSpec == NormalizerInit /\ [][NormalizerCall]_vars

\* No key of the payload holds null where the normalizer expects a mapping:
\* every one is missing, empty or a mapping.
KeysMissingOrMappings == \A c \in Chains : Walk(store[1], c) # Null

\* The count the payload gives for a severity, if it gives one.
GivenCount(sev) ==
  IF /\ "meta" \in DOMAIN store[1]
     /\ "latest_issue_counts" \in DOMAIN store[1].meta
     /\ sev \in DOMAIN store[1].meta.latest_issue_counts
    THEN <<store[1].meta.latest_issue_counts[sev]>>
    ELSE <<>>

\* C18: the normalizer is total over payloads with missing keys: it returns
\* for every combination of missing or empty attributes, relationships,
\* target, data, meta and integration_data, and each severity count is 0
\* when meta, latest_issue_counts or the severity key is missing or empty
\* (and the payload's count otherwise).
C18_NormalizerTotal ==
  (m_call.op = "_rest_to_v1_response_format" /\ KeysMissingOrMappings) =>
    /\ m_out.error = "none"
    /\ \A sev \in Severities :
         m_out.value[1].issueCountsBySeverity[sev] =
           IF GivenCount(sev) = <<>> THEN 0 ELSE GivenCount(sev)[1]

C18_Witness ==
  /\ m_call.op = "_rest_to_v1_response_format"
  /\ DOMAIN store[1] = {"id", "relationships"}
  /\ store[1].relationships = [target |-> [data |-> [meta |-> Empty]]]
  /\ m_out.error = "none"
  /\ m_out.value[1].issueCountsBySeverity = [sev \in Severities |-> 0]
  /\ m_out.value[1].name = None

\* ------------------------------------------------------------------------
\* ProjectManager (specification ProjectSpec)
\* ------------------------------------------------------------------------
\* The pages of one organization's project listing.
NumProjectPages == 2
ProjectPages    == 1..NumProjectPages

\* The listing requests of one call after which the model stops following it.
MaxQueryFetch == NumProjectPages + 1

\* managers.py:991  params = {"limit": 100}
limit == 100

Orgs == Instances \ {"None"}

\* The tags arguments: none, well-formed ones, and ones with a tag that
\* lacks its value, lacks its key, or has a key too many.
EnvProd  == [key |-> "env", value |-> "prod"]
TagLists ==
  { <<>>, <<EnvProd>>, <<EnvProd, [key |-> "team", value |-> "a"]>>,
    <<[key |-> "env"]>>, <<[value |-> "prod"]>>,
    <<[key |-> "env", value |-> "prod", extra |-> "x"]>>,
    <<EnvProd, [key |-> "env"]>> }

ProjectKwargs == {<<>>, << <<"name", "name-1">> >>}
ProjectIds    == {"p1", "nosuch"}

\* managers.py:998  a tag _query rejects
MalformedTag(tag) ==
  "key" \notin DOMAIN tag \/ "value" \notin DOMAIN tag
    \/ Cardinality(DOMAIN tag) # 2

\* managers.py:1000-1001  ",".join(f'{d["key"]}:{d["value"]}' for d in tags)
RECURSIVE JoinTags(_)
JoinTags(tags) ==
  IF Len(tags) = 1 THEN tags[1].key \o ":" \o tags[1].value
  ELSE tags[1].key \o ":" \o tags[1].value \o "," \o JoinTags(Tail(tags))

\* managers.py:991-1006  the params of a listing request: tags when there
\* are tags, the issue counts and the target on the first page
QueryParams(tags, next_url) ==
  ("limit" :> limit) @@
  (IF tags # <<>> THEN "tags" :> JoinTags(tags) ELSE Empty) @@
  (IF next_url = 0
     THEN ("meta.latest_issue_counts" :> "true") @@ ("expand" :> "target")
     ELSE Empty)

\* The REST payload of the project on page k: only the first one carries the
\* tag env:prod; totalDependencies is left out or given.
RestProject(k, td) ==
  [id |-> "p" \o ToString(k),
   attributes |-> [name |-> "name-" \o ToString(k),
                   tags |-> IF k = 1 THEN <<EnvProd>> ELSE <<>>]]
  @@ Field("totalDependencies", td)

\* What the backend may answer at page k of a project listing: a failure, or
\* 200 with a body whose "data" is missing or holds one project, and whose
\* links hold a next or not.
ProjectResponses(k) ==
  { [status |-> 200, hasData |-> d[1], data |-> d[2], next |-> n] :
      d \in {<<FALSE, <<>>>>} \cup
            {<<TRUE, <<RestProject(k, td)>>>> : td \in Opt({5})},
      n \in {{}} \cup {{q} : q \in ProjectPages} }
  \cup {[status |-> 500, hasData |-> FALSE, data |-> <<>>, next |-> {}]}

\* What the backend may answer at v1 "orgs": a failure, or 200 with a body
\* whose "orgs" is missing or lists organizations.
OrgsResponses ==
  { [status |-> 200, hasOrgs |-> o[1], orgs |-> o[2]] :
      o \in {<<FALSE, <<>>>>, <<TRUE, <<"org-2">>>>,
             <<TRUE, <<"org-1", "org-2">>>>, <<TRUE, <<"org-2", "org-1">>>>} }
  \cup {[status |-> 500, hasOrgs |-> FALSE, orgs |-> <<>>]}

\* What the backend may answer at v1 "org/<org>/project/<id>": a failure, or
\* the project in the v1 format, totalDependencies left out or given.
V1ProjectResponses(id) ==
  { [status |-> 200,
     body |-> [id |-> id, name |-> "name-1"] @@ Field("tags", tg)
              @@ Field("totalDependencies", td)] :
      tg \in Opt({<<EnvProd>>}), td \in Opt({0, 5}) }
  \cup {[status |-> 404, body |-> Empty]}

\* managers.py:1017-1028  one project of a listing response: normalised,
\* given its organization and a totalDependencies, and parsed by
\* klass.from_dict into the Project with these attributes
ProjectOf(response_data, org) ==
  LET v == rest_to_v1_response_format(response_data)
  IN IF v.error # "none" THEN v
     ELSE LET project_data == v.value[1] @@ [organization |-> org]
          IN Returns((IF \/ "totalDependencies" \notin DOMAIN project_data
                         \/ project_data.totalDependencies = 0
                        THEN [totalDependencies |-> 0] ELSE Empty)
                     @@ project_data)

\* managers.py:1055-1066  the project of a v1 response: its organization
\* set, tags moved to _tags (here: tags), totalDependencies 0 when it is None
V1ProjectOf(body, org) ==
  Returns((IF "totalDependencies" \notin DOMAIN body
             THEN [totalDependencies |-> 0] ELSE Empty)
          @@ [organization |-> org] @@ body)

\* The backend of a project manager: the answer at v1 "orgs" and at every
\* page of every organization's listing, each fixed when first asked.
ProjectBackend ==
  [orgs |-> Unserved, pages |-> [o \in Orgs, k \in ProjectPages |-> Unserved]]

ServedOrgs == IF backend.orgs = Unserved THEN OrgsResponses ELSE {backend.orgs}

ServedPage(org, k) ==
  IF backend.pages[org, k] = Unserved THEN ProjectResponses(k)
  ELSE {backend.pages[org, k]}

\* managers.py:42-47, 28-32  what filter and get make of the projects
\* _query returned
Finish(call, projects) ==
  IF call.op = "get" THEN ManagerGet(projects, call.id)
  ELSE IF call.op = "all" THEN Returns(projects)
  ELSE FilterByKwargs(projects, call.kwargs)

\* The "orgs" of a body taken as a list of one default organization when
\* the field is missing
OrgsOrDefault(body) == IF body.hasOrgs THEN body.orgs ELSE <<"org-1">>

\* managers.py:899-902  the organizations of a response body: those of its
\* "orgs" field, none when the body has no such field
OrgsOf(body) == IF body.hasOrgs THEN body.orgs ELSE <<>>

\* The tags handed on to every organization's listing when well-formed
UnscopedTagsPassed(tags) ==
  IF \A i \in 1..Len(tags) : ~MalformedTag(tags[i]) THEN tags ELSE <<>>

\* managers.py:1036-1037  the tags of org.projects.all(), the listing made
\* for each organization by _query(tags) of a manager without a Scope
UnscopedTags(tags) == <<>>

\* The managers whose get(id) is one REST GET of the resource
\* (managers.py:493, 553, 649, 742, 782, 798, 821, 849) and those of them
\* that raise SnykError without an instance
DirectGetManagers ==
  {"ServiceAccountManager", "AppManager", "EnvironmentManager",
   "CollectionManager", "UserManager", "GroupManager", "IssuesManager",
   "TargetsManager"}
ScopedManagers == DirectGetManagers \ {"UserManager", "GroupManager"}

\* The path of the collection, without the id
GetPathOfCollection(mgr, id) ==
  CASE mgr.impl = "UserManager" -> "users"
    [] mgr.impl = "GroupManager" -> "groups"
    [] mgr.impl = "IssuesManager" -> "orgs/" \o mgr.instance \o "/issues"
    [] mgr.impl = "TargetsManager" -> "orgs/" \o mgr.instance \o "/targets"
    [] OTHER -> "orgs/" \o mgr.instance \o "/" \o RestPath[mgr.impl]

\* managers.py:500, 558, 656, 749, 784, 800, 826, 854  the path get(id) asks
GetPath(mgr, id) ==
  CASE mgr.impl = "UserManager" -> "users/" \o id
    [] mgr.impl = "GroupManager" -> "groups/" \o id
    [] mgr.impl = "IssuesManager" ->
         "orgs/" \o mgr.instance \o "/issues/" \o id
    [] mgr.impl = "TargetsManager" ->
         "orgs/" \o mgr.instance \o "/targets/" \o id
    [] OTHER -> "orgs/" \o mgr.instance \o "/" \o RestPath[mgr.impl]
                  \o "/" \o id

\* managers.py:849-857  TargetsManager.get, and the get of the other
\* managers of DirectGetManagers alike: SnykError without an instance where
\* one is needed, else one REST GET and the "data" of the response parsed
RestGet(mgr, id, st, t) ==
  IF mgr.impl \in ScopedManagers /\ mgr.instance = "None"
    THEN Done(Raises("SnykError"), <<>>)
    ELSE LET x == Exchange(Request("get", TRUE, GetPath(mgr, id), <<>>), t, st)
         IN Done(IF x.raises THEN Raises("SnykHTTPError")
                 ELSE FromDict(mgr.klass, [id |-> id]), x.sent)

\* A project manager the factory built for client.projects (no Scope) or for
\* org.projects, or a manager of DirectGetManagers, and a client with the
\* default tries; nothing has been asked of the backend.
ProjectInit ==
  /\ tries = 1
  /\ backend = ProjectBackend
  /\ pc = "idle"
  /\ page_data = NoPage
  /\ return_data = <<>>
  /\ fetched = <<>>
  /\ calls = <<>>
  /\ result = <<>>
  /\ error = "none"
  /\ store = <<>>
  /\ mapping = <<>>
  /\ m_call = NoCall
  /\ m_out = NoOutcome
  /\ manager \in {Factory([form |-> "class", name |-> k],
                          "client-1", i).value[1] :
                    k \in {"Project"} \cup
                          {n \in DOMAIN Registry :
                             Registry[n] \in DirectGetManagers},
                    i \in Instances}
  /\ query = NoQuery
  /\ snyk = NoClient

\* managers.py:1045-1049, 989-1001  manager.filter(tags, **kwargs) up to the
\* first request of _query: with a Scope the tags are validated, without
\* one the organizations are listed first
ProjectFilterCall ==
  /\ pc = "idle"
  /\ manager.impl = "ProjectManager"
  /\ \E tags \in TagLists, kwargs \in ProjectKwargs :
       /\ m_call' = [op |-> "filter", tags |-> tags, kwargs |-> kwargs,
                     id |-> ""]
       /\ IF manager.instance = "None"
            THEN /\ pc' = "orgs"
                 /\ query' = NoQuery
                 /\ m_out' = m_out
            ELSE IF \E i \in 1..Len(tags) : MalformedTag(tags[i])
              THEN /\ pc' = "raised"
                   /\ query' = NoQuery
                   /\ m_out' = Raises("SnykError")
              ELSE /\ pc' = "query"
                   /\ query' = [todo |-> <<manager.instance>>, url |-> 0,
                                tags |-> tags]
                   /\ m_out' = m_out
  /\ UNCHANGED <<tries, backend, page_data, return_data, fetched, calls,
                 result, error, snyk, store, mapping, manager>>

\* managers.py:1042-1043, 989-990  manager.all(): _query() with no tags
ProjectAllCall ==
  /\ pc = "idle"
  /\ manager.impl = "ProjectManager"
  /\ m_call' = [op |-> "all", tags |-> <<>>, kwargs |-> <<>>, id |-> ""]
  /\ IF manager.instance = "None"
       THEN pc' = "orgs" /\ query' = NoQuery
       ELSE /\ pc' = "query"
            /\ query' = [todo |-> <<manager.instance>>, url |-> 0,
                         tags |-> <<>>]
  /\ UNCHANGED <<tries, backend, page_data, return_data, fetched, calls,
                 result, error, snyk, store, mapping, manager, m_out>>

\* managers.py:896-905  client.organizations.all()
OrganizationsAllCall ==
  /\ pc = "idle"
  /\ manager.impl = "ProjectManager"
  /\ manager.instance = "None"
  /\ m_call' = [op |-> "organizations", tags |-> <<>>, kwargs |-> <<>>,
                id |-> ""]
  /\ pc' = "orgs"
  /\ UNCHANGED <<tries, backend, page_data, return_data, fetched, calls,
                 result, error, svars, m_out>>

\* managers.py:849-857  manager.get(id) of a manager of DirectGetManagers
DirectGetCall ==
  /\ pc = "idle"
  /\ manager.impl \in DirectGetManagers
  /\ \E id \in ProjectIds, st \in Statuses :
       LET r == RestGet(manager, id, st, tries)
       IN /\ m_call' = [op |-> "get", tags |-> <<>>, kwargs |-> <<>>,
                        id |-> id]
          /\ calls' = r.sent
          /\ m_out' = r.out
          /\ pc' = IF r.out.error = "none" THEN "done" ELSE "raised"
  /\ UNCHANGED <<tries, backend, page_data, return_data, fetched, result,
                 error, svars>>

\* managers.py:1051-1070  manager.get(id): with a Scope one v1 GET, without
\* one Manager.get over all()
ProjectGetCall ==
  /\ pc = "idle"
  /\ manager.impl = "ProjectManager"
  /\ \E id \in ProjectIds :
       /\ m_call' = [op |-> "get", tags |-> <<>>, kwargs |-> <<>>, id |-> id]
       /\ IF manager.instance = "None"
            THEN /\ pc' = "orgs"
                 /\ m_out' = m_out
                 /\ calls' = calls
            ELSE \E resp \in V1ProjectResponses(id) :
                   LET x == Exchange(
                              [method |-> "get", rest |-> FALSE,
                               path |-> "org/" \o manager.instance
                                        \o "/project/" \o id,
                               params |-> Empty], tries, resp.status)
                   IN /\ calls' = x.sent
                      /\ pc' = IF x.raises THEN "raised" ELSE "done"
                      /\ m_out' = IF x.raises THEN Raises("SnykHTTPError")
                                  ELSE V1ProjectOf(resp.body, manager.instance)
  /\ UNCHANGED <<tries, backend, page_data, return_data, fetched, result,
                 error, svars>>

\* managers.py:1036-1037, 896-905  client.organizations.all() of the
\* manager without a Scope: one v1 GET, [] when the body has no "orgs"
OrganizationsAll ==
  /\ pc = "orgs"
  /\ \E resp \in ServedOrgs :
       LET x == Exchange([method |-> "get", rest |-> FALSE, path |-> "orgs",
                          params |-> Empty], tries, resp.status)
       IN /\ calls' = calls \o x.sent
          /\ backend' = [backend EXCEPT !.orgs = resp]
          /\ IF x.raises
               THEN /\ pc' = "raised"
                    /\ m_out' = Raises("SnykHTTPError")
                    /\ query' = query
               ELSE IF m_call.op = "organizations"
                 THEN /\ pc' = "done"
                      /\ m_out' = Returns(OrgsOf(resp))
                      /\ query' = query
               ELSE IF OrgsOf(resp) = <<>>
                 THEN /\ pc' = "done"
                      /\ m_out' = Finish(m_call, <<>>)
                      /\ query' = query
                 ELSE /\ pc' = "query"
                      /\ m_out' = m_out
                      /\ query' = [todo |-> OrgsOf(resp), url |-> 0,
                                   tags |-> UnscopedTags(m_call.tags)]
  /\ UNCHANGED <<tries, page_data, return_data, fetched, result, error,
                 snyk, store, mapping, manager, m_call>>

\* managers.py:1003-1040  one request of _query and what it makes of the
\* response: the projects of "data" are appended; a next link of a body with
\* "data" is followed by the recursive call; otherwise the listing of this
\* organization is over, and the call with it after the last organization
\* (managers.py:1037: org.projects.all() for the next one)
QueryPage ==
  /\ pc = "query"
  /\ Len(fetched) < MaxQueryFetch
  /\ LET org == Head(query.todo)
         k   == IF query.url = 0 THEN 1 ELSE query.url
     IN \E resp \in ServedPage(org, k) :
       LET x == Exchange([method |-> "get", rest |-> TRUE,
                          path |-> IF query.url = 0
                                     THEN "/orgs/" \o org \o "/projects"
                                     ELSE "next:" \o ToString(k),
                          params |-> QueryParams(query.tags, query.url)],
                         tries, resp.status)
           projects == return_data \o
                         [i \in 1..Len(resp.data) |->
                            ProjectOf(resp.data[i], org).value[1]]
       IN /\ calls' = calls \o x.sent
          /\ backend' = [backend EXCEPT !.pages[org, k] = resp]
          /\ fetched' = Append(fetched, <<org, k>>)
          /\ IF x.raises
               THEN /\ pc' = "raised"
                    /\ m_out' = Raises("SnykHTTPError")
                    /\ UNCHANGED <<return_data, query>>
               ELSE /\ return_data' = projects
                    /\ IF resp.hasData /\ resp.next # {}
                         THEN /\ pc' = "query"
                              /\ m_out' = m_out
                              /\ query' = [query EXCEPT
                                             !.url = CHOOSE q \in resp.next : TRUE]
                         ELSE IF Len(query.todo) > 1
                           THEN /\ pc' = "query"
                                /\ m_out' = m_out
                                /\ query' = [query EXCEPT
                                               !.todo = Tail(query.todo),
                                               !.url = 0]
                           ELSE /\ pc' = "done"
                                /\ m_out' = Finish(m_call, projects)
                                /\ query' = query
  /\ UNCHANGED <<tries, page_data, result, error, snyk, store, mapping, manager,
                 m_call>>

ProjectNext ==
  \/ ProjectFilterCall
  \/ ProjectAllCall
  \/ OrganizationsAllCall
  \/ DirectGetCall
  \/ ProjectGetCall
  \/ OrganizationsAll
  \/ QueryPage

ProjectSpec == ProjectInit /\ [][ProjectNext]_vars

\* The tags of the call are well-formed and there is at least one.
WellFormedTags ==
  /\ m_call.tags # <<>>
  /\ \A i \in 1..Len(m_call.tags) :
       DOMAIN m_call.tags[i] = {"key", "value"}

\* The first requests of project listings among the requests sent.
ListingRequests ==
  {i \in 1..Len(calls) : calls[i].rest /\ "expand" \in DOMAIN calls[i].params}

\* The projects of the server's responses, in the order they arrived, that
\* satisfy the keyword predicates of the call.
RECURSIVE ServedProjects(_)
ServedProjects(pages) ==
  IF pages = <<>> THEN <<>>
  ELSE LET resp == backend.pages[Head(pages)[1], Head(pages)[2]]
       IN SelectSeq(resp.data,
                    LAMBDA d : \A j \in 1..Len(m_call.kwargs) :
                      d.attributes[m_call.kwargs[j][1]] = m_call.kwargs[j][2])
          \o ServedProjects(Tail(pages))

\* C13: filter(tags=[{key, value}, ...]) of a project manager sends its
\* listing request with the query parameter tags = the comma-joined
\* key:value pairs (tags=env:prod for the one tag env/prod), and returns the
\* projects of the server's responses that satisfy the keyword predicates,
\* whether or not they carry the tag.
C13_TagsSentNotRefiltered ==
  (m_call.op = "filter" /\ WellFormedTags) =>
    /\ \A i \in ListingRequests :
         /\ "tags" \in DOMAIN calls[i].params
         /\ m_call.tags = <<EnvProd>> => calls[i].params.tags = "env:prod"
         /\ Len(m_call.tags) = 2 => calls[i].params.tags = "env:prod,team:a"
    /\ pc = "done" =>
         /\ ListingRequests # {}
         /\ m_out.error = "none"
         /\ Len(m_out.value[1]) = Len(ServedProjects(fetched))
         /\ \A i \in 1..Len(m_out.value[1]) :
              m_out.value[1][i].id = ServedProjects(fetched)[i].id

\* C14: filter with a malformed tag (no key, no value, or a key too many)
\* raises SnykError before any request is sent, on every project manager,
\* built with a Scope or without.
C14_MalformedTagRaisesFirst ==
  ( /\ m_call.op = "filter"
    /\ \E i \in 1..Len(m_call.tags) :
         DOMAIN m_call.tags[i] # {"key", "value"} )
  => /\ calls = <<>>
     /\ m_out = [error |-> "SnykError", value |-> <<>>]

\* The totalDependencies a payload carries, 0 when it carries none.
CarriedTotalDependencies(payload) ==
  IF "totalDependencies" \in DOMAIN payload THEN payload.totalDependencies
  ELSE 0

\* C20: a project of the project manager has the totalDependencies its
\* payload carries and 0 when the payload carries none, both when listed
\* by _query and when fetched by ProjectManager.get.
C20_TotalDependencies ==
  /\ \A i \in 1..Len(return_data) :
       \E j \in 1..Len(fetched) :
         LET resp == backend.pages[fetched[j][1], fetched[j][2]]
         IN /\ resp.data # <<>>
            /\ resp.data[1].id = return_data[i].id
            /\ fetched[j][1] = return_data[i].organization
            /\ return_data[i].totalDependencies =
                 CarriedTotalDependencies(resp.data[1])
  /\ ( /\ m_call.op = "get" /\ manager.impl = "ProjectManager"
       /\ manager.instance # "None" /\ pc = "done" )
     => \E resp \in V1ProjectResponses(m_call.id) :
          /\ resp.status = 200
          /\ m_out.value[1].id = resp.body.id
          /\ DOMAIN resp.body \subseteq DOMAIN m_out.value[1]
          /\ \A f \in DOMAIN resp.body \ {"totalDependencies"} :
               m_out.value[1][f] = resp.body[f]
          /\ m_out.value[1].totalDependencies =
               CarriedTotalDependencies(resp.body)

\* ------------------------------------------------------------ ClientSpec
\* One call of SnykClient.get, post, put or delete on a client object.
\* A URL or a path is a sequence of pieces of text and f"{a}/{b}" is
\* a \o <<"/">> \o b; a word is in a text when one of the pieces holds it.

\* client.py:37-38  SnykClient.API_URL, SnykClient.REST_API_URL
API_URL      == <<"https://", "api.snyk.io", "/v1">>
REST_API_URL == <<"https://", "api.snyk.io", "/rest">>

\* The rest_api_url a client may be built with: the default and the URL of
\* a deployment on another host.
RestUrls == {REST_API_URL, <<"https://", "api.snykgov.io", "/rest">>}

\* The pieces of text that hold the word (Python's `word in text`).
Holding(word) ==
  CASE word = "snyk.io" -> {"api.snyk.io"}
    [] word = "version" ->
         {"?version=2024-10-15&starting_after=x", "sbom_versions"}
    [] OTHER -> {}

\* `word in text`
In(word, text) == \E i \in 1..Len(text) : text[i] \in Holding(word)

\* The relative paths a caller passes, in the form cleanup_path leaves
\* alone: no leading or trailing slash.
RelativePaths ==
  {<<"orgs">>, <<"sbom_versions">>,
   <<"orgs", "?version=2024-10-15&starting_after=x">>}

\* The next links a page served under base carries: fully-qualified URLs,
\* with or without a version in the query string.
NextUrls(base) ==
  {base \o <<"/", "orgs", q>> :
     q \in {"?starting_after=x", "?version=2024-10-15&starting_after=x"}}

\* Python values of query parameters: str(v) is v.repr
PyStr(text) == [type |-> "str", repr |-> text]
PyBool(b)   == [type |-> "bool", repr |-> IF b THEN "True" ELSE "False"]
PyNone      == [type |-> "NoneType", repr |-> "None"]

\* The params a caller passes to get: none, a number, a boolean, a version
ParamDicts ==
  {<<>>, "limit" :> PyStr("10"),
   "excludeEmpty" :> PyBool(TRUE),
   ("limit" :> PyStr("10")) @@ ("excludeEmpty" :> PyBool(FALSE)),
   "version" :> PyStr("2023-01-01")}

\* client.py:234  str(v).lower()
Lower(v) == PyStr(IF v.repr = "True" THEN "true" ELSE "false")

\* client.py:88-98  method(url, params=params): the query string holds
\* str(v) for every value but None, whose key is left out
Encoded(params) ==
  [k \in {q \in DOMAIN params : params[q].type # "NoneType"} |->
     params[k].repr]

\* client.py:222-245  the request SnykClient.get builds
ClientGet(self, path, params, version, rest) ==
  LET is_rest == rest \/ version # None
      picked == IF version # None THEN PyStr(version)
                ELSE IF self.version # None THEN PyStr(self.version)
                ELSE PyNone
      versioned == IF "version" \notin DOMAIN params /\ ~In("version", path)
                     THEN params @@ ("version" :> picked)
                     ELSE params
      lowered == [k \in DOMAIN versioned |->
                    IF versioned[k].type = "bool" THEN Lower(versioned[k])
                    ELSE versioned[k]]
  IN IF is_rest
       THEN IF In("snyk.io", path)
              THEN [method |-> "GET", url |-> path, params |-> <<>>,
                    json |-> <<>>]
              ELSE [method |-> "GET",
                    url |-> self.rest_api_url \o <<"/">> \o path,
                    params |-> Encoded(lowered), json |-> <<>>]
       ELSE [method |-> "GET", url |-> self.api_url \o <<"/">> \o path,
             params |-> Encoded(params), json |-> <<>>]

\* client.py:119-136, 167-184, 272-283  the request post, put and delete
\* build: the client's version is the one parameter of a REST call
ClientSend(method, self, path, json, rest) ==
  IF rest
    THEN [method |-> method, url |-> self.rest_api_url \o <<"/">> \o path,
          params |-> Encoded(IF self.version # None
                               THEN "version" :> PyStr(self.version)
                               ELSE <<>>),
          json |-> json]
    ELSE [method |-> method, url |-> self.api_url \o <<"/">> \o path,
          params |-> <<>>, json |-> json]

\* client.py:107-153  SnykClient.post
ClientPost(self, path, body, rest) ==
  ClientSend("POST", self, path, <<body>>, rest)

\* client.py:155-199  SnykClient.put
ClientPut(self, path, body, rest) ==
  ClientSend("PUT", self, path, <<body>>, rest)

\* client.py:264-298  SnykClient.delete
ClientDelete(self, path, rest) == ClientSend("DELETE", self, path, <<>>, rest)

\* client.py:28-73  SnykClient(token, rest_api_url=..., tries=..., version=...)
ClientInit ==
  /\ tries \in 1..MaxTries
  /\ backend = [p \in Pages |-> Unserved]
  /\ pc = "idle"
  /\ page_data = NoPage
  /\ return_data = <<>>
  /\ fetched = <<>>
  /\ calls = <<>>
  /\ result = <<>>
  /\ error = "none"
  /\ store = <<>>
  /\ mapping = <<>>
  /\ m_call = NoCall
  /\ m_out = NoOutcome
  /\ manager = NoManager
  /\ query = NoQuery
  /\ snyk \in [api_url : {API_URL}, rest_api_url : RestUrls,
               version : {None, "2024-10-15"}]

\* The call with the request it builds, against an endpoint that answers
\* every attempt with status st: the requests sent, and the response
\* returned or SnykHTTPError raised.
ClientCall(call, request) ==
  /\ m_call = NoCall
  /\ \E st \in Statuses :
       LET x == Exchange(request, tries, st)
       IN /\ calls' = x.sent
          /\ m_out' = IF x.raises THEN Raises("SnykHTTPError")
                      ELSE Returns([status |-> st])
  /\ m_call' = call
  /\ UNCHANGED <<tries, cvars, svars>>

\* client.py:201-262  client.get(path, params, version, rest)
ClientGetCall ==
  \E path \in RelativePaths \cup NextUrls(snyk.rest_api_url),
     params \in ParamDicts, version \in {None, "2022-02-16"},
     rest \in BOOLEAN :
    ClientCall([op |-> "get", path |-> path, params |-> params,
                version |-> version, rest |-> rest],
               ClientGet(snyk, path, params, version, rest))

\* client.py:107-153  client.post(path, body, rest=rest)
ClientPostCall ==
  \E path \in RelativePaths, rest \in BOOLEAN :
    ClientCall([op |-> "post", path |-> path, params |-> <<>>,
                version |-> None, rest |-> rest],
               ClientPost(snyk, path, "payload", rest))

\* client.py:155-199  client.put(path, body, rest=rest)
ClientPutCall ==
  \E path \in RelativePaths, rest \in BOOLEAN :
    ClientCall([op |-> "put", path |-> path, params |-> <<>>,
                version |-> None, rest |-> rest],
               ClientPut(snyk, path, "payload", rest))

\* client.py:264-298  client.delete(path, rest=rest)
ClientDeleteCall ==
  \E path \in RelativePaths, rest \in BOOLEAN :
    ClientCall([op |-> "delete", path |-> path, params |-> <<>>,
                version |-> None, rest |-> rest],
               ClientDelete(snyk, path, rest))

ClientNext ==
  \/ ClientGetCall
  \/ ClientPostCall
  \/ ClientPutCall
  \/ ClientDeleteCall

ClientSpec == ClientInit /\ [][ClientNext]_vars

\* The call was made as a REST call (get: rest=True or a version given).
RestCall == m_call.op \in {"get", "post", "put", "delete"}
            /\ (m_call.rest \/ m_call.version # None)

\* The path of the call is a fully-qualified URL.
FullyQualified == m_call.path[1] = "https://"

\* C21: a REST get whose path is a fully-qualified URL is requested at
\* exactly that URL with no query parameter added, and a REST get whose
\* path is relative is requested at base URL + "/" + path, for every
\* rest_api_url the client is built with.
C21_UrlNotPrefixedTwice ==
  (m_call.op = "get" /\ RestCall) =>
    \A i \in 1..Len(calls) :
      IF FullyQualified
        THEN calls[i].url = m_call.path /\ calls[i].params = <<>>
        ELSE calls[i].url = snyk.rest_api_url \o <<"/">> \o m_call.path

\* The part of C21 the code satisfies: the same on a client whose
\* rest_api_url holds "snyk.io".
C21_OnSnykIoHosts ==
  In("snyk.io", snyk.rest_api_url) => C21_UrlNotPrefixedTwice

\* The parameter k of the call as request i carries it, when the call was
\* given k and the request carries it at all.
Transmitted(i, k) ==
  k \in DOMAIN m_call.params /\ k \in DOMAIN calls[i].params

\* C22: every boolean query-parameter value passed to get is transmitted as
\* the string "true" or "false", on REST and on legacy calls alike, and
\* every other value is transmitted unchanged.
C22_BooleansLowercase ==
  m_call.op = "get" =>
    \A i \in 1..Len(calls) : \A k \in {"limit", "excludeEmpty", "version"} :
      Transmitted(i, k) =>
        calls[i].params[k] =
          IF m_call.params[k] = PyBool(TRUE) THEN "true"
          ELSE IF m_call.params[k] = PyBool(FALSE) THEN "false"
          ELSE m_call.params[k].repr

\* The part of C22 the code satisfies: the same on REST calls.
C22_OnRestCalls == RestCall => C22_BooleansLowercase

\* The path of the call carries a version parameter in its query string.
PathCarriesVersion ==
  \E i \in 1..Len(m_call.path) :
    m_call.path[i] = "?version=2024-10-15&starting_after=x"

\* The version of the call: the argument of get, else the client's.
ConfiguredVersion ==
  IF m_call.version # None THEN m_call.version ELSE snyk.version

\* C23: every request of a REST call (get, post, put, delete) on which a
\* version is configured carries the version parameter, holding the call's
\* or the client's version; a get whose params carry a version sends that
\* one, and a get whose path carries a version sends no version parameter.
C23_OneVersionParameter ==
  (RestCall /\ ConfiguredVersion # None) =>
    \A i \in 1..Len(calls) :
      IF "version" \in DOMAIN m_call.params
        THEN Transmitted(i, "version") =>
               calls[i].params.version = m_call.params.version.repr
        ELSE IF m_call.op = "get" /\ PathCarriesVersion
          THEN "version" \notin DOMAIN calls[i].params
          ELSE /\ "version" \in DOMAIN calls[i].params
               /\ calls[i].params.version = ConfiguredVersion

\* The part of C23 the code satisfies: the same on paths that hold the word
\* "version" only in a version parameter and that are not URLs without one.
C23_OnPlainPaths ==
  ( /\ RestCall
    /\ In("version", m_call.path) => PathCarriesVersion
    /\ In("snyk.io", m_call.path) => PathCarriesVersion )
  => C23_OneVersionParameter

\* The call went to an endpoint that answers every attempt with a status
\* of the set.
Answered(statuses) ==
  /\ m_call.op \in {"get", "post", "put", "delete"}
  /\ calls # <<>>
  /\ calls[1].status \in statuses

\* C24: against an endpoint that answers every attempt with a 5xx status,
\* get, post, put and delete each send exactly `tries` requests and then
\* raise SnykHTTPError (a SnykError); no response is returned.
C24_ServerErrorExhaustsTries ==
  Answered(500..599) =>
    /\ Len(calls) = tries
    /\ \A i \in 1..Len(calls) : calls[i].status = calls[1].status
    /\ m_out = [error |-> "SnykHTTPError", value |-> <<>>]

C24_Witness ==
  /\ Answered(500..599)
  /\ m_call.op = "delete"
  /\ tries = MaxTries
  /\ Len(calls) = MaxTries
  /\ m_out.error = "SnykHTTPError"

\* C29: request() raises for every non-ok response, so against an endpoint
\* that answers every attempt with a 4xx status, get, post, put and delete
\* each send exactly `tries` requests before SnykHTTPError reaches the
\* caller.
C29_ClientErrorRetried ==
  Answered(400..499) =>
    /\ Len(calls) = tries
    /\ \A i \in 1..Len(calls) : calls[i].status = calls[1].status
    /\ m_out.error = "SnykHTTPError"

C29_Witness ==
  /\ Answered(400..499)
  /\ m_call.op = "get"
  /\ tries = MaxTries
  /\ Len(calls) = MaxTries
  /\ calls[MaxTries].status = 404
  /\ m_out.error = "SnykHTTPError"

\* The j-th project page fetched was served with status 200 and a body
\* without "data".
LacksData(j) ==
  /\ backend.pages[fetched[j][1], fetched[j][2]].status = 200
  /\ ~backend.pages[fetched[j][1], fetched[j][2]].hasData

\* v1 "orgs" was served with status 200 and a body without "orgs".
LacksOrgs == backend.orgs.status = 200 /\ ~backend.orgs.hasOrgs

\* C25: a listing whose successful response body lacks its collection field
\* returns the empty list: organizations.all() when the body has no "orgs",
\* projects.all() with a Scope when the first page has no "data" (no further
\* page is fetched), and projects.all() without a Scope when the body of
\* "orgs" has no "orgs" or every organization's page has no "data".
C25_MissingCollectionIsEmpty ==
  /\ (m_call.op = "organizations" /\ LacksOrgs)
       => pc = "done" /\ m_out = Returns(<<>>)
  /\ (m_call.op = "all" /\ manager.instance # "None" /\ fetched # <<>>
        /\ LacksData(1))
       => pc = "done" /\ m_out = Returns(<<>>) /\ Len(fetched) = 1
  /\ (m_call.op = "all" /\ manager.instance = "None" /\ LacksOrgs)
       => pc = "done" /\ m_out = Returns(<<>>) /\ fetched = <<>>
  /\ (m_call.op = "all" /\ manager.instance = "None"
        /\ pc \in {"done", "raised"} /\ backend.orgs.status = 200
        /\ \A j \in 1..Len(fetched) : LacksData(j))
       => /\ pc = "done" /\ m_out = Returns(<<>>)
          /\ Len(fetched) = Len(OrgsOf(backend.orgs))

C25_Witness ==
  /\ m_call.op = "all"
  /\ manager.instance = "None"
  /\ pc = "done"
  /\ Len(fetched) = 2
  /\ \A j \in 1..Len(fetched) : LacksData(j)
  /\ m_out = Returns(<<>>)

\* The j-th project page fetched carries projects and a next link that is
\* the URL the page itself was fetched at (its self link).
NextIsOwnUrl(j) ==
  /\ backend.pages[fetched[j][1], fetched[j][2]].status = 200
  /\ backend.pages[fetched[j][1], fetched[j][2]].hasData
  /\ backend.pages[fetched[j][1], fetched[j][2]].next = {fetched[j][2]}

\* C26: when a project page's next link equals its self link, _query stops
\* following the listing: no further page of that organization is fetched.
C26_SelfReferentialPageStops ==
  \A j \in 1..Len(fetched) :
    (NextIsOwnUrl(j) /\ j < Len(fetched)) =>
      fetched[j + 1][1] # fetched[j][1]

\* The REST paths that name the resource id of a collection.
IdPaths(id) ==
  {c \o "/" \o id :
     c \in {"users", "groups"} \cup
           {"orgs/" \o o \o "/" \o r :
              o \in Orgs,
              r \in {"targets", "issues", "collections", "service_accounts",
                     "cloud/environments", "apps/creations"}}}

OrgIndex(org) ==
  CHOOSE i \in 1..Len(backend.orgs.orgs) : backend.orgs.orgs[i] = org

\* The listing of the organization was followed to its end: its last page
\* fetched has no "data" or no next link.
ListedInFull(org) ==
  \E j \in 1..Len(fetched) :
    /\ fetched[j][1] = org
    /\ \A k \in (j + 1)..Len(fetched) : fetched[k][1] # org
    /\ \/ ~backend.pages[org, fetched[j][2]].hasData
       \/ backend.pages[org, fetched[j][2]].next = {}

\* C28: filter(tags, **kwargs) of a project manager without a Scope neither
\* validates the tags nor sends them: it raises no SnykError, sends GET
\* orgs and then, organization by organization in the order served, the
\* listing requests all() sends (limit, no tags), and returns the projects
\* of every organization's full listing that satisfy the keyword
\* predicates.
C28_UnscopedTagsIgnored ==
  ( /\ m_call.op = "filter"
    /\ manager.impl = "ProjectManager"
    /\ manager.instance = "None" ) =>
    /\ m_out.error # "SnykError"
    /\ calls # <<>> => calls[1].path = "orgs" /\ ~calls[1].rest
    /\ Len(calls) \in {0, 1 + Len(fetched)}
    /\ \A i \in 2..Len(calls) :
         /\ calls[i].rest
         /\ calls[i].params.limit = limit
         /\ "tags" \notin DOMAIN calls[i].params
         /\ ("expand" \in DOMAIN calls[i].params) =
              (i = 2 \/ fetched[i - 2][1] # fetched[i - 1][1])
    /\ \A j \in 1..Len(fetched) : \A k \in j..Len(fetched) :
         OrgIndex(fetched[j][1]) <= OrgIndex(fetched[k][1])
    /\ pc = "done" =>
         /\ \A i \in 1..Len(backend.orgs.orgs) :
              ListedInFull(backend.orgs.orgs[i])
         /\ m_out.error = "none"
         /\ Len(m_out.value[1]) = Len(ServedProjects(fetched))
         /\ \A i \in 1..Len(m_out.value[1]) :
              /\ m_out.value[1][i].id = ServedProjects(fetched)[i].id
              /\ m_out.value[1][i].organization =
                   fetched[CHOOSE j \in 1..Len(fetched) :
                             Len(ServedProjects(SubSeq(fetched, 1, j))) >= i][1]

C28_Witness ==
  /\ m_call.op = "filter"
  /\ manager.instance = "None"
  /\ m_call.tags = <<EnvProd, [key |-> "env"]>>
  /\ m_call.kwargs # <<>>
  /\ pc = "done"
  /\ Len(fetched) = 2
  /\ fetched[1][1] = "org-2"
  /\ Len(m_out.value[1]) = 2

\* -------------------------------------------------------- DependencySpec
\* One call of DependencyManager.all() on the manager of an organization or
\* of a project, against a backend that reports a fixed total.

\* The most pages a listing of the model has.
MaxDependencyPages == 3

\* managers.py:1103  results_per_page = 1000
results_per_page == 1000

\* The totals a backend reports: none, and those at the edges of each page.
Totals ==
  {t \in 0..(MaxDependencyPages * results_per_page) :
     t % results_per_page \in {0, 1, results_per_page - 1}}

\* managers.py:1104  hasattr(self.instance, "organization")
HasOrganization(instance) == instance = "project-1"

\* managers.py:1110-1114  the path of page `page`
DependencyPath(instance, page) ==
  "org/" \o (IF HasOrganization(instance) THEN "org-2" ELSE instance)
    \o "/dependencies?sortBy=dependency&order=asc&page=" \o ToString(page)
    \o "&perPage=" \o ToString(results_per_page)

\* managers.py:1104-1109  the body posted
DependencyBody(instance) ==
  IF HasOrganization(instance)
    THEN [filters |-> [projects |-> <<instance>>]]
    ELSE [filters |-> Empty]

\* The "results" the backend serves on a page of a listing of `total`
\* dependencies, numbered in sortBy order: the first and the last of the
\* page stand for the page's results.
DependencyResults(total, page) ==
  LET lo == (page - 1) * results_per_page + 1
      hi == IF total < page * results_per_page THEN total
            ELSE page * results_per_page
  IN IF hi < lo THEN <<>> ELSE IF hi = lo THEN <<lo>> ELSE <<lo, hi>>

\* a further page is asked for when the total reaches the end of this one
HasMoreOrEqual(total, page) == total >= page * results_per_page

\* managers.py:1126  total > (page * results_per_page)
HasMore(total, page) == total > page * results_per_page

\* A dependency manager of an organization or of a project (which has an
\* organization), and a backend with its total and the page (if any) at
\* which it answers 500.
DependencyInit ==
  /\ tries \in 1..MaxTries
  /\ backend \in [total : Totals, fails : 0..MaxDependencyPages]
  /\ pc = "idle"
  /\ page_data = NoPage
  /\ return_data = <<>>
  /\ fetched = <<>>
  /\ calls = <<>>
  /\ result = <<>>
  /\ error = "none"
  /\ store = <<>>
  /\ mapping = <<>>
  /\ m_call = NoCall
  /\ m_out = NoOutcome
  /\ manager \in {Factory([form |-> "class", name |-> "Dependency"],
                          "client-1", i).value[1] :
                    i \in {"org-1", "project-1"}}
  /\ query = NoQuery
  /\ snyk = NoClient

\* managers.py:1102  manager.all(): page = 1
DependencyAllCall ==
  /\ pc = "idle"
  /\ m_call' = [op |-> "all", id |-> "", kwargs |-> <<>>]
  /\ query' = [NoQuery EXCEPT !.url = 1]
  /\ pc' = "query"
  /\ UNCHANGED <<tries, backend, page_data, return_data, fetched, calls,
                 result, error, snyk, store, mapping, manager, m_out>>

\* managers.py:1116-1130  all(page): one POST, the page's results parsed,
\* and all(page + 1) when the total says there is more; the results of the
\* later pages are appended to those of this one
DependencyPage ==
  /\ pc = "query"
  /\ LET page == query.url
         st   == IF backend.fails = page THEN 500 ELSE 200
         x    == Exchange(Request("post", FALSE,
                                  DependencyPath(manager.instance, page),
                                  <<DependencyBody(manager.instance)>>),
                          tries, st)
         results == return_data \o DependencyResults(backend.total, page)
     IN /\ calls' = calls \o x.sent
        /\ fetched' = Append(fetched, page)
        /\ IF x.raises
             THEN /\ pc' = "raised"
                  /\ m_out' = Raises("SnykHTTPError")
                  /\ UNCHANGED <<return_data, query>>
             ELSE /\ return_data' = results
                  /\ IF HasMore(backend.total, page)
                       THEN /\ pc' = "query"
                            /\ query' = [query EXCEPT !.url = page + 1]
                            /\ m_out' = m_out
                       ELSE /\ pc' = "done"
                            /\ query' = query
                            /\ m_out' = Returns(results)
  /\ UNCHANGED <<tries, backend, page_data, result, error, snyk, store,
                 mapping, manager, m_call>>

DependencyNext ==
  \/ DependencyAllCall
  \/ DependencyPage

DependencySpec == DependencyInit /\ [][DependencyNext]_vars

\* The number of pages of a listing of `total` dependencies: ceil(total /
\* 1000), and one for an empty listing.
PagesOf(total) ==
  IF total = 0 THEN 1 ELSE (total + results_per_page - 1) \div results_per_page

====
